---- MODULE Spec2Model ----
(***************************************************************************)
(* Verification model of the qvain-api backend (CSCfi/qvain-api):          *)
(*   - the authorization proxy    (cmd/qvain-backend/api_proxy.go)         *)
(*   - the publication engine     (internal/shared/publish.go)             *)
(*   - the sync engine            (internal/shared sync: Fetch, syncBatch) *)
(* Each subsystem has its own specification (SpecProxy, SpecPublish,       *)
(* SpecSync, SpecSyncConc); the variables of the other subsystems are held *)
(* constant by it.                                                         *)
(***************************************************************************)
EXTENDS Integers, Sequences, FiniteSets, TLC

VARIABLES
    \* ---- authorization proxy (one request in flight; per-request state) ----
    user,       \* the session user: [identity, projects]
    ppc,        \* position of the request: "idle", "forwarded", "responded", "done"
    req,        \* the incoming request, <<>> before it arrives
    w,          \* the http.ResponseWriter the client reads
    upreq,      \* the request the upstream received, <<>> when none was sent
    resp,       \* the upstream response
    cresp,      \* the response after ModifyResponse, copied to the client
    walk,       \* the response walk: "none", "skipped", "notjson",
                \* "nosession", "pass", "fail"
    errlog,     \* server log events written by loggedJSONError
    \* ---- datastore, clock and upstream calls (publication and sync) ----
    db,         \* the datastore: record id -> record, for the records that exist
    db0,        \* the datastore when the running operation started
    now,        \* the wall clock, in seconds
    upcalls,    \* the upstream calls made so far, in order
    \* ---- publication engine (one call in flight) ----
    pub,        \* the running Publish / UnpublishAndDelete call
    \* ---- sync engine ----
    upstream,   \* the user's records at the upstream, in stream order
    tasks,      \* the sync calls: task -> the state of its Fetch* call
    runs,       \* how many more sync calls may start
    \* ---- validation of an update (one validation per behaviour) ----
    stored,     \* the stored dataset the update is checked against
    updated,    \* the updated dataset
    verdict,    \* the error ValidateUpdated returned, "none" before it has
    \* ---- record model (pkg/metax): conversion and creation ----
    conv,       \* one conversion of an upstream record: its input and result
    parsedTemplates, \* the schema template table: schema -> template
    created,    \* the CreateData calls: call -> its arguments and its blob
    \* ---- lookup API (one request per behaviour) ----
    lookup      \* the lookup request and the rows its query selected

proxyVars == <<user, ppc, req, w, upreq, resp, cresp, walk, errlog>>

storeVars == <<db, db0, now, upcalls>>

syncVars == <<upstream, tasks, runs>>

validateVars == <<stored, updated, verdict>>

metaxVars == <<conv, parsedTemplates, created>>

vars == <<user, ppc, req, w, upreq, resp, cresp, walk, errlog,
          db, db0, now, upcalls, pub, upstream, tasks, runs,
          stored, updated, verdict, conv, parsedTemplates, created, lookup>>

-----------------------------------------------------------------------------
(***************************************************************************)
(* JSON values as encoding/json decodes them into interface{}:             *)
(* strings, numbers, objects (maps with unique keys) and arrays.           *)
(***************************************************************************)
Str(s) == [t |-> "str", v |-> s]
Num == [t |-> "num", v |-> "0"]
Obj(f) == [t |-> "obj", v |-> f]
Arr(s) == [t |-> "arr", v |-> s]
\* a body that json.Unmarshal rejects
NotJson == [t |-> "notjson", v |-> "garbage"]

\* longest array generated for upstream bodies
MaxArr == 2

\* most values of one query parameter in a request
MaxProjectParams == 2

SeqsUpTo(S, n) == UNION {[1..k -> S] : k \in 0..n}

\* objects over every non-empty key set K of Keys with values in Vals
ObjectsOver(Keys, Vals) ==
    {Obj(f) : f \in UNION {[K -> Vals] : K \in (SUBSET Keys) \ {{}}}}

\* "P1" and "P2" may be projects of the user, "P3" never is
Projects == {"P1", "P2", "P3"}
UserProjectLists == {<<>>, <<"P1">>, <<"P1", "P2">>}

JsonLeaves == {Str("P1"), Str("P3"), Num}
JsonObjects1 == ObjectsOver({"project_identifier", "name"}, JsonLeaves)
JsonElems1 ==
    {Obj([project_identifier |-> Str("P1")]),
     Obj([project_identifier |-> Str("P3")]),
     Str("P3")}
JsonArrays1 == {Arr(s) : s \in SeqsUpTo(JsonElems1, MaxArr)}
JsonObjects2 ==
    {Obj([k \in {key} |-> val]) :
        key \in {"project_identifier", "results", "parent"},
        val \in JsonObjects1 \cup JsonArrays1}
JsonArrays2 == {Arr(<<a>>) : a \in JsonArrays1}

\* the bodies the upstream may answer with
ResponseBodies ==
    {NotJson} \cup JsonLeaves \cup JsonObjects1 \cup JsonArrays1
              \cup JsonObjects2 \cup JsonArrays2

\* the bodies a client may send
RequestBodies ==
    {NotJson,
     Str("x"),
     Obj([identifier |-> Str("1")]),
     Obj([user_modified |-> Str("eve")]),
     Arr(<<Obj([identifier |-> Str("1")]), Str("x")>>)}

\* len(body) of a serialised value, counted in tokens: one for a leaf, a key
\* or a bracket
RECURSIVE JsonLen(_), MembersLen(_, _)
JsonLen(j) ==
    CASE j.t = "obj" -> 2 + MembersLen(j.v, DOMAIN j.v) + Cardinality(DOMAIN j.v)
      [] j.t = "arr" -> 2 + MembersLen(j.v, DOMAIN j.v)
      [] OTHER -> 1

MembersLen(f, D) ==
    IF D = {} THEN 0
    ELSE LET d == CHOOSE x \in D : TRUE
         IN  JsonLen(f[d]) + MembersLen(f, D \ {d})

-----------------------------------------------------------------------------
(***************************************************************************)
(* Session and user facts                                                  *)
(***************************************************************************)
\* models.User.HasProject: membership test over the ordered project list
HasProject(projects, p) == \E i \in 1..Len(projects) : projects[i] = p

\* strings.Join(items, ","): a string is the tuple of its tokens, a project
\* name is one token and the separator is the token ","
RECURSIVE JoinComma(_)
JoinComma(items) ==
    IF items = <<>> THEN <<>>
    ELSE IF Len(items) = 1 THEN <<items[1]>>
    ELSE <<items[1], ",">> \o JoinComma(Tail(items))

\* strings.Split(s, ","): the pieces of s between the separators, each the
\* tuple of its tokens; the empty string splits into one empty piece
RECURSIVE SplitComma(_)
SplitComma(s) ==
    IF \A i \in 1..Len(s) : s[i] # "," THEN <<s>>
    ELSE LET i == CHOOSE k \in 1..Len(s) :
                      s[k] = "," /\ \A j \in 1..(k - 1) : s[j] # ","
         IN  <<SubSeq(s, 1, i - 1)>> \o SplitComma(SubSeq(s, i + 1, Len(s)))

\* models.User.AddAllowedProjects: the value of the allowed_projects
\* parameter is the user's projects joined by commas, not escaped
AllowedProjectsValue(projects) == JoinComma(projects)

\* sessions.Manager.UserSessionFromRequest: nil or one of the session errors
SessionOutcomes == {"nil", "ErrSessionNotFound", "ErrUnknownUser", "ErrOther"}

-----------------------------------------------------------------------------
(***************************************************************************)
(* Response writing helpers (api_helpers.go)                               *)
(***************************************************************************)
StandardHeaders == {"Content-Type", "X-Content-Type-Options"}

NewWriter == [wroteHeader |-> FALSE, status |-> 0, hdr |-> {}, body |-> <<>>]

\* http.ResponseWriter.WriteHeader: only the first call sets the status
WriteHeader(wr, status) ==
    IF wr.wroteHeader THEN wr
    ELSE [wr EXCEPT !.wroteHeader = TRUE, !.status = status]

\* http.ResponseWriter.Write: an implicit 200 when no header was written
WriteBody(wr, chunk) ==
    LET w1 == WriteHeader(wr, 200)
    IN [w1 EXCEPT !.body = Append(@, chunk)]

\* apiWriteHeaders
apiWriteHeaders(wr) ==
    IF wr.wroteHeader THEN wr ELSE [wr EXCEPT !.hdr = @ \cup StandardHeaders]

\* An error body {status, msg, error_id}
ErrorBody(status, msg, id) ==
    [kind |-> "error", status |-> status, msg |-> msg, error_id |-> id]

\* A body copied from the upstream
UpstreamBody(b) == [kind |-> "upstream", json |-> b]

\* loggedJSONError on the pair io = [w, log]: a fresh error id, the standard
\* headers, the status, the error body, and the log event with the same id.
loggedJSONError(io, msg, status) ==
    LET id == Len(io.log) + 1
        w1 == WriteHeader(apiWriteHeaders(io.w), status)
    IN [w   |-> [w1 EXCEPT !.body = Append(@, ErrorBody(status, msg, id))],
        log |-> Append(io.log, [error_id |-> id, msg |-> msg])]

\* sessionError: the status for each session error
sessionErrorStatus(err) ==
    CASE err = "ErrSessionNotFound" -> 401
      [] err = "ErrCreatingSid" -> 500
      [] err = "ErrUnknownUser" -> 503
      [] OTHER -> 500

sessionError(io, err) == loggedJSONError(io, err, sessionErrorStatus(err))

\* convertNetError: a friendlier description of a transport error
convertNetError(err) ==
    CASE err = "timeout" -> "connection timeout"
      [] err = "dial" -> "unknown host"
      [] err = "read" -> "connection refused"
      [] err = "ECONNREFUSED" -> "connection refused"
      [] OTHER -> "Bad Gateway"

NetErrors == {"timeout", "dial", "read", "ECONNREFUSED", "reset"}

\* jsonErrorWithPayload: like loggedJSONError without an error id and
\* without a log event; the body names the origin of the error
jsonErrorWithPayload(io, msg, origin, status) ==
    LET w1 == WriteHeader(apiWriteHeaders(io.w), status)
    IN [w   |-> [w1 EXCEPT !.body =
                    Append(@, [kind |-> "error", status |-> status,
                               msg |-> msg, origin |-> origin])],
        log |-> io.log]

\* dbError: status and message for each datastore error
dbErrorStatus(err) ==
    CASE err = "ErrExists" -> 409
      [] err = "ErrNotFound" -> 404
      [] err = "ErrNotOwner" -> 403
      [] err = "ErrInvalidJson" -> 400
      [] err \in {"ErrConnection", "ErrTimeout", "ErrTemporary"} -> 503
      [] OTHER -> 500

dbErrorMsg(err) ==
    CASE err = "ErrExists" -> "resource exists already"
      [] err = "ErrNotFound" -> "resource not found"
      [] err = "ErrNotOwner" -> "not resource owner"
      [] err = "ErrInvalidJson" -> "invalid input"
      [] err = "ErrConnection" -> "no database connection"
      [] err = "ErrTimeout" -> "database timeout"
      [] err = "ErrTemporary" -> "temporary database error"
      [] OTHER -> "database error"

dbError(io, err) == loggedJSONError(io, dbErrorMsg(err), dbErrorStatus(err))

convertExternalStatusCodeMutPassThrough(code) == code

\* convertExternalStatusCode: the status shown to the client for a status of
\* the upstream
convertExternalStatusCode(code) ==
    CASE code >= 300 /\ code < 400 -> 200
      [] code = 401 \/ code = 403 -> 500
      [] code = 500 -> 502
      [] code = 503 -> 504
      [] OTHER -> code

-----------------------------------------------------------------------------
(***************************************************************************)
(* Datastore records and upstream blobs                                    *)
(***************************************************************************)
\* latest time the clock and the upstream timestamps reach
MaxTime == 2

Times == 0..MaxTime

\* local record ids; NoId is the zero uuid
NoId == "00000000"
Uids == {"u1", "u2"}

\* the schema family of upstream datasets (metax.MetaxDatasetFamily)
MetaxDatasetFamily == 2

\* the ident used to recognise the application's editor metadata
appIdent == "qvain"

\* whether a remote service may create a new record
allowCreation == TRUE

\* A blob, by the paths the code reads: identifier, editor.record_id (editor,
\* "" when the blob has no editor or no record_id in it), editor.identifier
\* (app, "" when the blob has no editor or no identifier in it; the
\* application marker for every blob built here with a record id),
\* user_created, user_modified, date_modified (modified),
\* date_created, date_deprecated and date_removed (each 0 when not set),
\* removed, new_version_created.identifier and data_catalog.identifier ("" when
\* the blob has no data_catalog).
Blob(identifier, editor, ucreated, umodified, modified, removed, newver) ==
    [identifier |-> identifier, editor |-> editor,
     app |-> IF editor = "" THEN "" ELSE appIdent, user_created |-> ucreated,
     user_modified |-> umodified, modified |-> modified, removed |-> removed,
     new_version |-> newver, catalog |-> "att", date_created |-> 0,
     date_deprecated |-> 0, date_removed |-> 0]

\* metax.GetIdentifier
GetIdentifier(blob) == blob.identifier

\* GetModificationDate, one step: a date that is set and after the date so
\* far replaces it
Later(date, other) == IF other # 0 /\ other > date THEN other ELSE date

\* GetModificationDate that does not read date_deprecated
GetModificationDateMutNoDeprecated(blob) ==
    Later(Later(blob.date_created, blob.modified), blob.date_removed)

\* metax.GetModificationDate: starts from date_created and goes through
\* date_modified, date_deprecated and date_removed
GetModificationDate(blob) ==
    Later(Later(Later(blob.date_created, blob.modified), blob.date_deprecated),
          blob.date_removed)

\* metax.MaybeNewVersionId
MaybeNewVersionId(blob) == blob.new_version

\* A datastore record
Record(owner, published, synced, blob) ==
    [owner |-> owner, family |-> MetaxDatasetFamily, published |-> published,
     synced |-> synced, blob |-> blob]

\* the store at rest: no operation has started
StoreIdle ==
    /\ db = <<>>
    /\ db0 = <<>>
    /\ now = 0
    /\ upcalls = <<>>

\* no update is being validated
ValidateIdle ==
    /\ stored = <<>>
    /\ updated = <<>>
    /\ verdict = [err |-> "none", field |-> ""]

\* no record is being converted and no dataset created
MetaxIdle ==
    /\ conv = [pc |-> "off"]
    /\ parsedTemplates = <<>>
    /\ created = <<>>

\* no lookup request
LookupIdle == lookup = [pc |-> "off"]

-----------------------------------------------------------------------------
(***************************************************************************)
(* Publication engine (internal/shared/publish.go)                         *)
(***************************************************************************)
NoCall == [op |-> "none", pc |-> "idle", id |-> NoId, owner |-> "u1",
           identity |-> "", sent |-> <<>>, res |-> <<>>, versionId |-> "",
           newVersionId |-> "", newQVersionId |-> NoId, apiErr |-> "nil", err |-> "nil",
           status |-> 0]

PublishIdle == pub = NoCall

\* db.GetWithOwner: the record, or ErrNotFound / ErrNotOwner
GetWithOwnerErr(store, id, uid) ==
    IF id \notin DOMAIN store THEN "ErrNotFound"
    ELSE IF store[id].owner # uid THEN "ErrNotOwner"
    ELSE "nil"

\* db.StorePublished: the record becomes published with the response blob
StorePublished(store, id, blob, synced) ==
    [store EXCEPT ![id] = [@ EXCEPT !.published = TRUE, !.blob = blob,
                                    !.synced = synced]]

\* tx.StoreNewVersion: a new record based on the parent, with the new blob
StoreNewVersion(store, parent, id, synced, blob) ==
    [k \in DOMAIN store \cup {id} |->
        IF k = id
        THEN Record(store[parent].owner, TRUE, synced, blob)
        ELSE store[k]]

\* db.Delete(id, owner)
DeleteRecord(store, id) == [k \in DOMAIN store \ {id} |-> store[k]]

\* a stamp that does not look at the published flag
StampMutAlwaysCreated(rec, identity) ==
    [rec.blob EXCEPT !.user_created = identity]

\* the stamp of Publish: user_modified if the record is already published,
\* user_created otherwise
Stamp(rec, identity) ==
    IF rec.published
    THEN [rec.blob EXCEPT !.user_modified = identity]
    ELSE [rec.blob EXCEPT !.user_created = identity]

\* time.Now() when the blob carries no modification date
SyncedOrNow(blob, t) ==
    IF GetModificationDate(blob) = 0 THEN t ELSE GetModificationDate(blob)

Finish(call, err) == [call EXCEPT !.pc = "done", !.err = err]

\* the call returns the error of an upstream call
FinishApi(call, err) == [call EXCEPT !.pc = "done", !.err = err, !.apiErr = err]

\* most upstream calls made in one run of the publication engine
MaxCalls == 4

PublishIds == {"r1", "r2", "r3"}

\* uuid.NewUUID: an id not in use
NewIds == {"r3", "r4"}
FreeIds(used) == NewIds \ used
NewUUID(used) == IF "r3" \in FreeIds(used) THEN "r3" ELSE "r4"
Identities == [u1 |-> "jack", u2 |-> "jill"]

\* Publish, up to the call of api.Store: load the record for the owner and
\* stamp the blob
Publish ==
    /\ pub.pc = "idle"
    /\ Len(upcalls) + 2 <= MaxCalls
    /\ \E id \in PublishIds, uid \in Uids :
        LET err == GetWithOwnerErr(db, id, uid)
            call == [NoCall EXCEPT !.op = "publish", !.id = id, !.owner = uid,
                                   !.identity = Identities[uid]]
        IN  IF err # "nil"
            THEN pub' = Finish(call, err) /\ upcalls' = upcalls
            ELSE /\ pub' = [call EXCEPT !.pc = "store",
                                        !.sent = <<Stamp(db[id], Identities[uid])>>]
                 /\ upcalls' = Append(upcalls, "Store")
    /\ db0' = db
    /\ UNCHANGED <<db, now, proxyVars, syncVars, validateVars, metaxVars, lookup>>

\* what api.Store may return for the blob sent: the blob as the upstream
\* stored it, with its identifier (kept when the blob had one), a
\* modification date and possibly the identifier of a new version
StoreResponses(sent) ==
    {[sent EXCEPT !.identifier = ident, !.modified = m, !.new_version = nv] :
        ident \in (IF sent.identifier = "" THEN {"", "urn1"}
                   ELSE {"", sent.identifier}),
        m \in Times,
        nv \in {"", "urn2"}}

ApiErrors == {"ApiError", "Transport", "Timeout"}

\* the response of api.Store carries no identifier (ErrNoIdentifier)
NoIdentifierMutNever(versionId) == FALSE

NoIdentifier(versionId) == versionId = ""

\* Publish, from the answer of api.Store to the call of api.GetId
PublishStored ==
    /\ pub.pc = "store"
    /\ \/ \E e \in ApiErrors :
            /\ pub' = FinishApi(pub, e)
            /\ db' = db
       \/ \E res \in StoreResponses(pub.sent[1]), dbErr \in {"nil", "ErrConnection"} :
            LET versionId == GetIdentifier(res)
                synced == SyncedOrNow(res, now)
                newVersionId == MaybeNewVersionId(res)
                call == [pub EXCEPT !.res = <<res>>]
            IN  IF NoIdentifier(versionId)
                THEN pub' = Finish(call, "ErrNoIdentifier") /\ db' = db
                ELSE IF dbErr # "nil"
                THEN pub' = Finish([call EXCEPT !.versionId = versionId], dbErr)
                     /\ db' = db
                ELSE /\ db' = StorePublished(db, pub.id, res, synced)
                     /\ pub' = IF newVersionId # ""
                               THEN [call EXCEPT !.pc = "getnew",
                                                 !.versionId = versionId,
                                                 !.newVersionId = newVersionId]
                               ELSE Finish([call EXCEPT !.versionId = versionId],
                                           "nil")
    /\ upcalls' = IF pub'.pc = "getnew" THEN Append(upcalls, "GetId") ELSE upcalls
    /\ UNCHANGED <<db0, now, proxyVars, syncVars, validateVars, metaxVars, lookup>>

\* what api.GetId may return for the new version
NewVersionBlobs(identifier, identity) ==
    {Blob(identifier, "", identity, "", m, FALSE, "") : m \in Times}

\* Publish, from the answer of api.GetId to the end: mint a local id and
\* store the new version in a transaction
PublishNewVersion ==
    /\ pub.pc = "getnew"
    /\ \/ \E e \in ApiErrors :
            /\ pub' = FinishApi(pub, e)
            /\ db' = db
       \/ \E newVersion \in NewVersionBlobs(pub.newVersionId, pub.identity),
             uuidErr \in {"nil", "ErrUuid"},
             dbErr \in {"nil", "ErrConnection"} :
            LET synced == SyncedOrNow(newVersion, now) IN
            IF uuidErr # "nil" \/ FreeIds(DOMAIN db) = {}
            THEN pub' = Finish(pub, "ErrUuid") /\ db' = db
            ELSE LET newQVersionId == NewUUID(DOMAIN db)
                     call == [pub EXCEPT !.newQVersionId = newQVersionId]
                 IN  IF dbErr # "nil"
                     THEN pub' = Finish(call, dbErr) /\ db' = db
                     ELSE /\ db' = StoreNewVersion(db, pub.id, newQVersionId,
                                                   synced, newVersion)
                          /\ pub' = Finish(call, "nil")
    /\ UNCHANGED <<db0, now, upcalls, proxyVars, syncVars, validateVars, metaxVars, lookup>>

\* UnpublishAndDelete, up to the call of api.Delete
UnpublishAndDelete ==
    /\ pub.pc = "idle"
    /\ Len(upcalls) + 1 <= MaxCalls
    /\ \E id \in PublishIds, uid \in Uids :
        LET err == GetWithOwnerErr(db, id, uid)
            call == [NoCall EXCEPT !.op = "unpublish", !.id = id, !.owner = uid]
        IN  IF err # "nil"
            THEN pub' = Finish(call, err) /\ upcalls' = upcalls
            ELSE /\ pub' = [call EXCEPT !.pc = "delete", !.sent = <<db[id].blob>>]
                 /\ upcalls' = Append(upcalls, "Delete")
    /\ db0' = db
    /\ UNCHANGED <<db, now, proxyVars, syncVars, validateVars, metaxVars, lookup>>

\* the local delete after api.Delete returned err
LocalDeleteMutIgnoreError(store, call, err, dbErr) ==
    IF dbErr # "nil" THEN store ELSE DeleteRecord(store, call.id)

LocalDelete(store, call, err, dbErr) ==
    IF err # "nil" THEN store
    ELSE IF dbErr # "nil" THEN store
    ELSE DeleteRecord(store, call.id)

\* UnpublishAndDelete, from the answer of api.Delete to the end
Unpublished ==
    /\ pub.pc = "delete"
    /\ \E err \in {"nil", "NotFound"} \cup ApiErrors,
          dbErr \in {"nil", "ErrConnection"} :
        /\ db' = LocalDelete(db, pub, err, dbErr)
        /\ pub' = IF err # "nil" THEN FinishApi(pub, err) ELSE Finish(pub, dbErr)
    /\ UNCHANGED <<db0, now, upcalls, proxyVars, syncVars, validateVars, metaxVars, lookup>>

\* the caller takes the result; the engine is ready for the next call and
\* the clock may have advanced
Returned ==
    /\ pub.pc = "done"
    /\ pub' = NoCall
    /\ \E t \in Times : t >= now /\ now' = t
    /\ UNCHANGED <<db, db0, upcalls, proxyVars, syncVars, validateVars, metaxVars, lookup>>

\* errors of type *psql.DatabaseError
DatabaseErrors ==
    {"ErrExists", "ErrNotFound", "ErrNotOwner", "ErrInvalidJson",
     "ErrConnection", "ErrTimeout", "ErrTemporary"}

\* the statuses drawn for an *metax.ApiError, none of them 2xx: every 3xx
\* and the statuses at and around each case of convertExternalStatusCode
ExternalStatuses ==
    {100, 199} \cup (300..405) \cup (499..505) \cup {599}

\* DatasetApi.handlePublishError: the answer for an error of the
\* publication engine; status is the StatusCode() of an ApiError.  The
\* ApiError branch logs a warning that carries no error id.
handlePublishError(io, err, status) ==
    IF err = "ApiError"
    THEN jsonErrorWithPayload(
             [io EXCEPT !.log = Append(@, [level |-> "warn",
                                           msg |-> "publish failed"])],
             err, "metax", convertExternalStatusCode(status))
    ELSE IF err \in DatabaseErrors THEN dbError(io, err)
    ELSE loggedJSONError(io, err, 500)

\* DatasetApi.Published and the end of deleteDataset: the answers of success
Published(io, call) ==
    [io EXCEPT !.w = WriteBody(apiWriteHeaders(@),
                               [kind |-> "published", status |-> 200,
                                id |-> call.id, extid |-> call.versionId])]

Deleted(io) == [io EXCEPT !.w = WriteHeader(apiWriteHeaders(@), 204)]

\* publishDataset / deleteDataset after the engine has returned: the handler
\* answers the client
Respond ==
    /\ pub.pc = "done"
    /\ pub.op \in {"publish", "unpublish"}
    /\ \E status \in (IF pub.err = "ApiError" THEN ExternalStatuses ELSE {0}) :
        LET io0 == [w |-> NewWriter, log |-> <<>>]
            io  == IF pub.err # "nil"
                   THEN handlePublishError(io0, pub.err, status)
                   ELSE IF pub.op = "publish" THEN Published(io0, pub)
                   ELSE Deleted(io0)
        IN  /\ w' = io.w
            /\ errlog' = io.log
            /\ pub' = [pub EXCEPT !.pc = "answered", !.status = status]
    /\ UNCHANGED <<user, ppc, req, upreq, resp, cresp, walk,
                   storeVars, syncVars, validateVars, metaxVars, lookup>>

\* the records of the store when a publication call starts
InitialRecords ==
    {Record(o, FALSE, 0, Blob("", id, "", "", 0, FALSE, "")) : o \in {"u1"}, id \in {"r1"}}
    \cup {Record("u1", TRUE, t, Blob("urn1", "r1", "jack", "", t, FALSE, "")) :
            t \in 1..MaxTime}


-----------------------------------------------------------------------------
(***************************************************************************)
(* Sync engine (internal/shared: Fetch, fetch, syncBatch, syncRecord)      *)
(***************************************************************************)
DefaultRequestTimeout == 15
RetryInterval == 10

\* seconds between two readings of the clock
SecondsPerTick == 16

\* most records the upstream holds for the user
MaxStream == 2

\* most sync calls in one run
MaxRuns == 2

SyncWritten == 0
SyncDeleted == 1
SyncSkipped == 2
SyncFailed == 3

Tasks == {"t1", "t2"}

\* seconds from one reading of the clock to a later one
Elapsed(from, to) == (to - from) * SecondsPerTick

\* a map without keys
EmptyMap == [k \in {} |-> NoId]

\* the records the upstream may hold
StreamRecords ==
    {Blob("urn1", "r1", "jack", "", m, rm, "") :
        m \in {0, MaxTime}, rm \in BOOLEAN}
    \cup {Blob("urn1", "", "jack", "", MaxTime, FALSE, ""),
          Blob("urn2", "", "jack", "", 1, FALSE, ""),
          Blob("urn2", "bad", "jack", "", 1, FALSE, ""),
          [Blob("urn2", "", "jack", "", 1, FALSE, "") EXCEPT !.catalog = "other"],
          [Blob("urn2", "", "jack", "", 1, FALSE, "") EXCEPT !.catalog = ""]}

\* the catalogs with a known schema
CatalogIdentifiers == {"att"}

\* uuid.FromString accepts the text
IsUuid(text) == text \in PublishIds \cup NewIds

\* MetaxRawRecord.GetQvainId: the record id of the editor object, <<>> for
\* nil; no editor, no editor.identifier, not ours, or no record_id is nil
\* without an error
GetQvainIdMutAnyEditor(mrec) ==
    IF mrec.editor = "" THEN [qid |-> <<>>, err |-> "nil"]
    ELSE IF ~IsUuid(mrec.editor) THEN [qid |-> <<>>, err |-> "ErrInvalidId"]
    ELSE [qid |-> <<mrec.editor>>, err |-> "nil"]

GetQvainId(mrec) ==
    IF mrec.app = "" \/ mrec.app # appIdent \/ mrec.editor = ""
    THEN [qid |-> <<>>, err |-> "nil"]
    ELSE IF ~IsUuid(mrec.editor) THEN [qid |-> <<>>, err |-> "ErrInvalidId"]
    ELSE [qid |-> <<mrec.editor>>, err |-> "nil"]

\* MetaxRawRecord.ToQvain: a record without id is new and gets the zero id;
\* a record id that is no uuid, or an unknown catalog, is an error; a record
\* without data_catalog (catalog "") makes ToQvain dereference a nil pointer
ToQvain(rec) ==
    LET g == GetQvainId(rec)
        isNew == g.err = "nil" /\ g.qid = <<>>
    IN  IF g.err # "nil"
        THEN [err |-> g.err, isNew |-> FALSE, id |-> NoId]
        ELSE IF g.qid = <<>> /\ ~allowCreation
        THEN [err |-> "ErrIdRequired", isNew |-> FALSE, id |-> NoId]
        ELSE IF rec.catalog = ""
        THEN [err |-> "panic", isNew |-> isNew, id |-> NoId]
        ELSE IF rec.catalog \notin CatalogIdentifiers
        THEN [err |-> "ErrUnknownSchema", isNew |-> isNew, id |-> NoId]
        ELSE [err |-> "nil", isNew |-> isNew,
              id |-> IF isNew THEN NoId ELSE g.qid[1]]

\* the order in which db.GetAllForUid returns records
RecordOrder == <<"r1", "r2", "r3", "r4">>

\* db.GetAllForUid: the ids of the user's records
GetAllForUid(store, uid) == {k \in DOMAIN store : store[k].owner = uid}

\* db.GetLastSync: the latest sync time of the user's records; the zero time
\* (with ErrNotFound) when there is none
GetLastSync(store, uid) ==
    LET mine == GetAllForUid(store, uid)
    IN  IF mine = {} THEN 0
        ELSE CHOOSE m \in {store[k].synced : k \in mine} :
                \A k \in mine : store[k].synced <= m

\* getSyncInfo, first map: upstream identifier -> id of the first of the
\* user's records that carries it
metaxDatasetQvainId(store, uid) ==
    LET mine == {k \in GetAllForUid(store, uid) :
                    store[k].family = MetaxDatasetFamily}
        pos(k) == CHOOSE i \in 1..Len(RecordOrder) : RecordOrder[i] = k
        idents == {GetIdentifier(store[k].blob) : k \in mine} \ {""}
    IN  [i \in idents |->
            CHOOSE k \in mine :
                /\ GetIdentifier(store[k].blob) = i
                /\ \A j \in mine :
                    GetIdentifier(store[j].blob) = i => pos(k) <= pos(j)]

\* getSyncInfo, second map: record id -> time of its last sync
qvainDatasetSyncTime(store, uid) ==
    LET mine == {k \in GetAllForUid(store, uid) :
                    store[k].family = MetaxDatasetFamily}
    IN  [k \in mine |-> store[k].synced]

\* a lookup that takes a missing key for a record synced at some time
SyncTimeOfMutKnown(synctime, id) ==
    IF id \in DOMAIN synctime THEN synctime[id] ELSE 1

\* a lookup in the second map: the zero time for a missing key
SyncTimeOf(synctime, id) ==
    IF id \in DOMAIN synctime THEN synctime[id] ELSE 0

\* one operation of a batch, applied to the store at time t
ApplyOp(store, op, uid, t) ==
    IF op.op = "Create"
    THEN [k \in DOMAIN store \cup {op.id} |->
            IF k = op.id THEN Record(uid, TRUE, t, op.blob) ELSE store[k]]
    ELSE IF op.id \notin DOMAIN store THEN store
    ELSE IF op.op = "Update"
    THEN [store EXCEPT ![op.id] = [@ EXCEPT !.blob = op.blob, !.synced = t]]
    ELSE IF op.op = "UpdateSynced"
    THEN [store EXCEPT ![op.id] = [@ EXCEPT !.synced = t]]
    ELSE DeleteRecord(store, op.id)

\* the operations of a batch, applied in order
RECURSIVE ApplyOps(_, _, _, _)
ApplyOps(store, ops, uid, t) ==
    IF ops = <<>> THEN store
    ELSE ApplyOps(ApplyOp(store, Head(ops), uid, t), Tail(ops), uid, t)

\* a batch operation on a record fails when the user has no such record
BatchOpErr(view, uid, id) ==
    IF id \in DOMAIN view /\ view[id].owner = uid THEN "nil" ELSE "ErrNotFound"

Outcome(status, ops, id, err) ==
    [status |-> status, ops |-> ops, id |-> id, err |-> err]

BatchOp(op, id, blob) == [op |-> op, id |-> id, blob |-> blob]

\* syncRecord without the lookup of the identifier in the user's index
syncRecordMutNoAdoption(view, index, synctime, uid, rec, used) ==
    LET q == ToQvain(rec)
        identifier == GetIdentifier(rec)
        found == FALSE
        isNew == q.isNew /\ ~found
        id == IF found THEN index[identifier] ELSE q.id
    IN  IF q.err # "nil" THEN Outcome(SyncFailed, <<>>, NoId, q.err)
        ELSE IF rec.removed
        THEN IF SyncTimeOf(synctime, id) = 0
             THEN Outcome(SyncSkipped, <<>>, NoId, "nil")
             ELSE IF BatchOpErr(view, uid, id) # "nil"
             THEN Outcome(SyncFailed, <<>>, NoId, BatchOpErr(view, uid, id))
             ELSE Outcome(SyncDeleted, <<BatchOp("Delete", id, rec)>>, NoId, "nil")
        ELSE IF isNew
        THEN IF FreeIds(used) = {}
             THEN Outcome(SyncFailed, <<>>, NoId, "ErrUuid")
             ELSE Outcome(SyncWritten,
                          <<BatchOp("Create", NewUUID(used), rec)>>,
                          NewUUID(used), "nil")
        ELSE IF GetModificationDate(rec) # 0
                /\ ~(GetModificationDate(rec) > SyncTimeOf(synctime, id))
        THEN IF BatchOpErr(view, uid, id) # "nil"
             THEN Outcome(SyncFailed, <<>>, NoId, BatchOpErr(view, uid, id))
             ELSE Outcome(SyncSkipped, <<BatchOp("UpdateSynced", id, rec)>>, id, "nil")
        ELSE IF BatchOpErr(view, uid, id) # "nil"
        THEN Outcome(SyncFailed, <<>>, NoId, BatchOpErr(view, uid, id))
        ELSE Outcome(SyncWritten, <<BatchOp("Update", id, rec)>>, id, "nil")

\* syncRecord: the outcome for one upstream record, given the store as the
\* batch sees it, the two maps of getSyncInfo and the ids already in use
syncRecord(view, index, synctime, uid, rec, used) ==
    LET q == ToQvain(rec)
        identifier == GetIdentifier(rec)
        found == q.isNew /\ identifier # "" /\ identifier \in DOMAIN index
        isNew == q.isNew /\ ~found
        id == IF found THEN index[identifier] ELSE q.id
    IN  IF q.err # "nil" THEN Outcome(SyncFailed, <<>>, NoId, q.err)
        ELSE IF rec.removed
        THEN IF SyncTimeOf(synctime, id) = 0
             THEN Outcome(SyncSkipped, <<>>, NoId, "nil")
             ELSE IF BatchOpErr(view, uid, id) # "nil"
             THEN Outcome(SyncFailed, <<>>, NoId, BatchOpErr(view, uid, id))
             ELSE Outcome(SyncDeleted, <<BatchOp("Delete", id, rec)>>, NoId, "nil")
        ELSE IF isNew
        THEN IF FreeIds(used) = {}
             THEN Outcome(SyncFailed, <<>>, NoId, "ErrUuid")
             ELSE Outcome(SyncWritten,
                          <<BatchOp("Create", NewUUID(used), rec)>>,
                          NewUUID(used), "nil")
        ELSE IF GetModificationDate(rec) # 0
                /\ ~(GetModificationDate(rec) > SyncTimeOf(synctime, id))
        THEN IF BatchOpErr(view, uid, id) # "nil"
             THEN Outcome(SyncFailed, <<>>, NoId, BatchOpErr(view, uid, id))
             ELSE Outcome(SyncSkipped, <<BatchOp("UpdateSynced", id, rec)>>, id, "nil")
        ELSE IF BatchOpErr(view, uid, id) # "nil"
        THEN Outcome(SyncFailed, <<>>, NoId, BatchOpErr(view, uid, id))
        ELSE Outcome(SyncWritten, <<BatchOp("Update", id, rec)>>, id, "nil")

ZeroTally == [read |-> 0, written |-> 0, deleted |-> 0, skipped |-> 0, failed |-> 0]

\* a task that runs no sync call.  entry .. contacted belong to the call
\* (Fetch*, fetch), start .. berr to its current or last batch (syncBatch)
\* and the producer of its stream, err and qid are the results of the call.
\* clean records that every batch of the call so far read its whole stream
\* without a stream error and committed, prev the entry point of the task's previous call when that
\* call was a clean Fetch or FetchAll.
IdleTask ==
    [pc |-> "idle", entry |-> "none", uid |-> "u1", since |-> 0, last |-> 0,
     called |-> 0, pass |-> 1, opened |-> 0, contacted |-> 0,
     start |-> 0, stream |-> <<>>, sent |-> 0, pst |-> "none", errcap |-> 0,
     cq |-> <<>>, errq |-> <<>>, closed |-> FALSE, perr |-> "nil",
     ops |-> <<>>, index |-> EmptyMap, synctime |-> EmptyMap, total |-> 0,
     tally |-> ZeroTally, dbOpen |-> EmptyMap, ended |-> FALSE,
     committed |-> FALSE, timedOut |-> FALSE, success |-> FALSE,
     berr |-> "nil", err |-> "nil", qid |-> NoId, clean |-> TRUE,
     prev |-> "none"]

\* a task that never starts
OffTask == [IdleTask EXCEPT !.pc = "off"]

SyncIdle ==
    /\ upstream = <<>>
    /\ tasks = [t \in Tasks |-> OffTask]
    /\ runs = 0

\* a task of the given user that runs no sync call
IdleTaskOf(uid) == [IdleTask EXCEPT !.uid = uid]

\* the call as Fetch, FetchSince and FetchAll hand it to fetch
StartCall(entry, uid, since, last, t) ==
    [IdleTask EXCEPT !.pc = "open", !.entry = entry, !.uid = uid,
                     !.since = since, !.last = last, !.called = t]

\* Fetch: sync what changed since the user's last sync
Fetch(t) ==
    /\ tasks[t].pc = "idle"
    /\ runs > 0
    /\ \E dbErr \in {"nil", "ErrConnection"} :
        LET uid == tasks[t].uid
            last == GetLastSync(db, uid)
            call == StartCall("Fetch", uid, last, last, now)
        IN  tasks' = [tasks EXCEPT ![t] =
                IF dbErr # "nil"
                THEN [call EXCEPT !.pc = "done", !.err = dbErr, !.since = 0,
                                  !.last = 0]
                ELSE [call EXCEPT !.prev = tasks[t].prev]]
    /\ runs' = runs - 1
    /\ UNCHANGED <<upstream, storeVars, pub, proxyVars, validateVars, metaxVars, lookup>>

FetchSince(t) ==
    /\ tasks[t].pc = "idle"
    /\ runs > 0
    /\ \E since \in Times \ {0} :
        tasks' = [tasks EXCEPT ![t] =
            StartCall("FetchSince", @.uid, since, 0, now)]
    /\ runs' = runs - 1
    /\ UNCHANGED <<upstream, storeVars, pub, proxyVars, validateVars, metaxVars, lookup>>

FetchAll(t) ==
    /\ tasks[t].pc = "idle"
    /\ runs > 0
    /\ tasks' = [tasks EXCEPT ![t] =
            [StartCall("FetchAll", @.uid, 0, 0, now) EXCEPT !.prev = tasks[t].prev]]
    /\ runs' = runs - 1
    /\ UNCHANGED <<upstream, storeVars, pub, proxyVars, validateVars, metaxVars, lookup>>

\* what api.ReadStreamChannel streams for the options: the removed records
\* with WithRemoved and the others without, modified after Since
ReadStream(feed, since, withRemoved) ==
    SelectSeq(feed, LAMBDA r :
        /\ r.removed = withRemoved
        /\ (since = 0 \/ GetModificationDate(r) > since))

\* syncBatch returns err to fetch; the deferred Rollback and cancel run.
\* fetch stops on an error, goes on to the pass over the removed records
\* after the first pass and ends after the second.
syncBatchReturn(task, err) ==
    LET ended == [task EXCEPT !.ended = TRUE, !.berr = err, !.pst = "closed",
                              !.clean = /\ @
                                        /\ task.success
                                        /\ task.committed
                                        /\ task.perr = "nil"
                                        /\ task.tally.read = task.total,
                              !.cq = <<>>, !.errq = <<>>, !.ops = <<>>,
                              !.stream = <<>>, !.errcap = 0, !.closed = TRUE,
                              !.index = EmptyMap, !.synctime = EmptyMap]
    IN  IF err # "nil" THEN [ended EXCEPT !.pc = "done", !.err = err]
        ELSE IF task.pass = 1 THEN [ended EXCEPT !.pc = "open", !.pass = 2]
        ELSE [ended EXCEPT !.pc = "done"]

\* a panic unwinds syncBatch and its caller: the deferred Rollback and cancel
\* run, the locals are gone and the call never returns
Crash(task) ==
    [task EXCEPT !.pc = "crashed", !.ended = TRUE, !.berr = "panic",
                 !.err = "panic", !.pst = "closed", !.cq = <<>>,
                 !.errq = <<>>, !.ops = <<>>, !.stream = <<>>, !.errcap = 0,
                 !.closed = TRUE, !.index = EmptyMap, !.synctime = EmptyMap,
                 !.tally = ZeroTally]

\* the buffer of the error channel
ErrcCapacities == {0, 1}

\* how db.NewBatchForUser and api.ReadStreamChannel may end: the first
\* fails, or the second fails, or the stream starts with some error channel
OpenOutcomes ==
    {[batchErr |-> "ErrConnection", apiErr |-> "nil", cap |-> 0]}
    \cup {[batchErr |-> "nil", apiErr |-> e, cap |-> 0] : e \in ApiErrors}
    \cup {[batchErr |-> "nil", apiErr |-> "nil", cap |-> c] : c \in ErrcCapacities}

\* syncBatch, up to the select loop: open the batch, start the stream, load
\* the maps of getSyncInfo when the upstream announces records
syncBatch(t) ==
    /\ tasks[t].pc = "open"
    /\ \E o \in OpenOutcomes :
        LET task == tasks[t]
            batchErr == o.batchErr
            apiErr == o.apiErr
            cap == o.cap
            stream == ReadStream(upstream, task.since, task.pass = 2)
            total == Len(stream)
            batch == [task EXCEPT !.start = now, !.stream = <<>>, !.sent = 0,
                        !.pst = "none", !.errcap = 0, !.cq = <<>>,
                        !.errq = <<>>, !.closed = FALSE, !.perr = "nil",
                        !.ops = <<>>, !.index = EmptyMap,
                        !.synctime = EmptyMap, !.total = 0,
                        !.tally = ZeroTally, !.dbOpen = db, !.ended = FALSE,
                        !.committed = FALSE, !.timedOut = FALSE,
                        !.success = FALSE, !.berr = "nil"]
            opened == [batch EXCEPT !.opened = @ + 1]
            called == [opened EXCEPT !.contacted = @ + 1]
        IN  tasks' = [tasks EXCEPT ![t] =
                IF batchErr # "nil" THEN syncBatchReturn(batch, batchErr)
                ELSE IF apiErr # "nil" THEN syncBatchReturn(called, apiErr)
                ELSE [called EXCEPT
                        !.pc = "select", !.stream = stream, !.pst = "run",
                        !.errcap = cap, !.total = total,
                        !.index = IF total > 0
                                  THEN metaxDatasetQvainId(db, task.uid)
                                  ELSE EmptyMap,
                        !.synctime = IF total > 0
                                     THEN qvainDatasetSyncTime(db, task.uid)
                                     ELSE EmptyMap]]
    /\ UNCHANGED <<upstream, runs, storeVars, pub, proxyVars, validateVars, metaxVars, lookup>>

\* the ids in use: the records of the store and of the open batches
UsedIds ==
    DOMAIN db \cup
    UNION {{tasks[u].ops[i].id : i \in 1..Len(tasks[u].ops)} : u \in Tasks}

\* the tally when the switch over the outcome has no case for SyncFailed
CountMutNoFailed(tally, status) ==
    LET t1 == [tally EXCEPT !.read = @ + 1]
    IN  IF status = SyncWritten THEN [t1 EXCEPT !.written = @ + 1]
        ELSE IF status = SyncDeleted THEN [t1 EXCEPT !.deleted = @ + 1]
        ELSE IF status = SyncSkipped THEN [t1 EXCEPT !.skipped = @ + 1]
        ELSE t1

\* the tally after a record with the given outcome
Count(tally, status) ==
    LET t1 == [tally EXCEPT !.read = @ + 1]
    IN  IF status = SyncWritten THEN [t1 EXCEPT !.written = @ + 1]
        ELSE IF status = SyncDeleted THEN [t1 EXCEPT !.deleted = @ + 1]
        ELSE IF status = SyncSkipped THEN [t1 EXCEPT !.skipped = @ + 1]
        ELSE [t1 EXCEPT !.failed = @ + 1]

\* the producer of ReadStreamChannel puts the next record on the record
\* channel
Produce(t) ==
    /\ tasks[t].pc = "select"
    /\ tasks[t].pst = "run"
    /\ tasks[t].sent < Len(tasks[t].stream)
    /\ tasks[t].cq = <<>>
    /\ LET task == tasks[t] IN
        tasks' = [tasks EXCEPT ![t] =
            [task EXCEPT !.cq = <<task.stream[task.sent + 1]>>,
                         !.sent = @ + 1]]
    /\ UNCHANGED <<upstream, runs, storeVars, pub, proxyVars, validateVars, metaxVars, lookup>>

\* the errors of a stream: the transport fails or a record does not decode
StreamErrors == {"Transport", "MalformedResponse"}

\* the producer meets an error before the stream is exhausted and reports it
\* on the error channel: into the buffer when there is one, else by waiting
\* for the consumer
ProduceError(t) ==
    /\ tasks[t].pc = "select"
    /\ tasks[t].pst = "run"
    /\ tasks[t].sent < Len(tasks[t].stream)
    /\ \E e \in StreamErrors :
        tasks' = [tasks EXCEPT ![t] =
            IF @.errcap > 0
            THEN [@ EXCEPT !.perr = e, !.errq = <<e>>, !.pst = "closing"]
            ELSE [@ EXCEPT !.perr = e, !.pst = "senderr"]]
    /\ UNCHANGED <<upstream, runs, storeVars, pub, proxyVars, validateVars, metaxVars, lookup>>

\* the producer terminates, after the last record or after an error, and
\* closes both channels
ProducerExit(t) ==
    /\ tasks[t].pc = "select"
    /\ \/ tasks[t].pst = "closing"
       \/ tasks[t].pst = "run" /\ tasks[t].sent = Len(tasks[t].stream)
    /\ tasks' = [tasks EXCEPT ![t] = [@ EXCEPT !.pst = "closed", !.closed = TRUE]]
    /\ UNCHANGED <<upstream, runs, storeVars, pub, proxyVars, validateVars, metaxVars, lookup>>

\* the case of a record when syncBatch returned the error of syncRecord
RecvRecordMutStopOnError(t) ==
    /\ tasks[t].pc = "select"
    /\ tasks[t].cq # <<>>
    /\ LET task == tasks[t]
           out == syncRecord(ApplyOps(db, task.ops, task.uid, now),
                             task.index, task.synctime, task.uid,
                             Head(task.cq), UsedIds)
       IN  tasks' = [tasks EXCEPT ![t] =
                IF out.err = "panic" THEN Crash(task)
                ELSE IF out.err # "nil"
                THEN syncBatchReturn([task EXCEPT !.tally = Count(@, out.status)],
                                     out.err)
                ELSE [task EXCEPT !.cq = <<>>, !.ops = @ \o out.ops,
                                  !.tally = Count(@, out.status)]]
    /\ UNCHANGED <<upstream, runs, storeVars, pub, proxyVars, validateVars, metaxVars, lookup>>

\* select, case fdDataset, more := <-c with a record: syncRecord and tally
RecvRecord(t) ==
    /\ tasks[t].pc = "select"
    /\ tasks[t].cq # <<>>
    /\ LET task == tasks[t]
           out == syncRecord(ApplyOps(db, task.ops, task.uid, now),
                             task.index, task.synctime, task.uid,
                             Head(task.cq), UsedIds)
       IN  tasks' = [tasks EXCEPT ![t] =
                IF out.err = "panic" THEN Crash(task)
                ELSE [task EXCEPT !.cq = <<>>, !.ops = @ \o out.ops,
                                  !.tally = Count(@, out.status)]]
    /\ UNCHANGED <<upstream, runs, storeVars, pub, proxyVars, validateVars, metaxVars, lookup>>

\* select, case fdDataset, more := <-c on the closed channel: success, and
\* the batch commits
RecvClosed(t) ==
    /\ tasks[t].pc = "select"
    /\ tasks[t].cq = <<>>
    /\ tasks[t].closed
    /\ \E commitErr \in {"nil", "ErrConnection"} :
        LET task == tasks[t] IN
        IF commitErr = "nil"
        THEN /\ db' = ApplyOps(db, task.ops, task.uid, now)
             /\ tasks' = [tasks EXCEPT ![t] =
                    syncBatchReturn([task EXCEPT !.success = TRUE,
                                                 !.committed = TRUE], "nil")]
        ELSE /\ db' = db
             /\ tasks' = [tasks EXCEPT ![t] =
                    syncBatchReturn([task EXCEPT !.success = TRUE], commitErr)]
    /\ UNCHANGED <<db0, now, upcalls, upstream, runs, pub, proxyVars, validateVars, metaxVars, lookup>>

\* what a receive on the error channel yields: the buffered error, the error
\* the producer is waiting to hand over, or the zero value once closed
ErrcReady(task) ==
    task.errq # <<>> \/ task.pst = "senderr" \/ task.closed

ErrcValue(task) ==
    IF task.errq # <<>> THEN task.errq[1]
    ELSE IF task.pst = "senderr" THEN task.perr
    ELSE "nil"

\* select, case err := <-errc: return err
RecvErr(t) ==
    /\ tasks[t].pc = "select"
    /\ ErrcReady(tasks[t])
    /\ tasks' = [tasks EXCEPT ![t] = syncBatchReturn(@, ErrcValue(@))]
    /\ UNCHANGED <<upstream, runs, storeVars, pub, proxyVars, validateVars, metaxVars, lookup>>

\* the err that the case <-ctx.Done() returns: the err of syncBatch, nil
\* since ReadStreamChannel succeeded
TimeoutErr(task) == "nil"

\* select, case <-ctx.Done(): the deadline has passed
RecvTimeout(t) ==
    /\ tasks[t].pc = "select"
    /\ Elapsed(tasks[t].start, now) >= DefaultRequestTimeout
    /\ tasks' = [tasks EXCEPT ![t] =
            syncBatchReturn([@ EXCEPT !.timedOut = TRUE], TimeoutErr(@))]
    /\ UNCHANGED <<upstream, runs, storeVars, pub, proxyVars, validateVars, metaxVars, lookup>>

\* FetchDataset, up to the batch: api.GetId of the identifier
FetchDataset(t) ==
    /\ tasks[t].pc = "idle"
    /\ runs > 0
    /\ \E identifier \in {"urn1", "urn2"}, apiErr \in {"nil"} \cup ApiErrors :
        LET uid == tasks[t].uid
            at == {i \in 1..Len(upstream) :
                    /\ GetIdentifier(upstream[i]) = identifier
                    /\ ~upstream[i].removed}
            first == CHOOSE i \in at : \A j \in at : i <= j
            call == [IdleTask EXCEPT !.entry = "FetchDataset", !.uid = uid,
                                     !.called = now]
        IN  tasks' = [tasks EXCEPT ![t] =
                IF apiErr # "nil" THEN [call EXCEPT !.pc = "done", !.err = apiErr]
                ELSE IF at = {} THEN [call EXCEPT !.pc = "done", !.err = "NotFound"]
                ELSE [call EXCEPT !.pc = "syncone", !.contacted = 1,
                                  !.stream = <<upstream[first]>>]]
    /\ runs' = runs - 1
    /\ UNCHANGED <<upstream, storeVars, pub, proxyVars, validateVars, metaxVars, lookup>>

\* FetchDataset, the batch: getSyncInfo, syncRecord, Commit
FetchDatasetSync(t) ==
    /\ tasks[t].pc = "syncone"
    /\ \E batchErr \in {"nil", "ErrConnection"}, commitErr \in {"nil", "ErrConnection"} :
        LET task == tasks[t]
            out == syncRecord(db, metaxDatasetQvainId(db, task.uid),
                              qvainDatasetSyncTime(db, task.uid), task.uid,
                              task.stream[1], UsedIds)
            batch == [task EXCEPT !.pc = "done", !.opened = 1, !.dbOpen = db,
                                  !.ended = TRUE]
        IN  IF batchErr # "nil"
            THEN /\ tasks' = [tasks EXCEPT ![t] =
                        [task EXCEPT !.pc = "done", !.err = batchErr]]
                 /\ db' = db
            ELSE IF out.err = "panic"
            THEN /\ tasks' = [tasks EXCEPT ![t] = Crash(batch)]
                 /\ db' = db
            ELSE IF out.err # "nil"
            THEN /\ tasks' = [tasks EXCEPT ![t] = [batch EXCEPT !.err = out.err]]
                 /\ db' = db
            ELSE IF commitErr # "nil"
            THEN /\ tasks' = [tasks EXCEPT ![t] = [batch EXCEPT !.err = commitErr]]
                 /\ db' = db
            ELSE /\ tasks' = [tasks EXCEPT ![t] =
                        [batch EXCEPT !.committed = TRUE, !.qid = out.id]]
                 /\ db' = ApplyOps(db, out.ops, task.uid, now)
    /\ UNCHANGED <<db0, now, upcalls, upstream, runs, pub, proxyVars, validateVars, metaxVars, lookup>>

\* the caller takes the result of the call
SyncReturned(t) ==
    /\ tasks[t].pc = "done"
    /\ tasks' = [tasks EXCEPT ![t] =
            [IdleTaskOf(@.uid) EXCEPT !.prev =
                IF /\ tasks[t].err = "nil"
                   /\ tasks[t].clean
                   /\ tasks[t].entry \in {"Fetch", "FetchAll"}
                THEN tasks[t].entry ELSE "none"]]
    /\ UNCHANGED <<upstream, runs, storeVars, pub, proxyVars, validateVars, metaxVars, lookup>>

\* api.GetId: the upstream's record with the identifier, none when the
\* upstream has no such record
GetId(feed, identifier) ==
    SelectSeq(feed, LAMBDA r : GetIdentifier(r) = identifier /\ ~r.removed)

\* FetchDataset after api.GetId returned the record: the batch, getSyncInfo,
\* syncRecord and Commit.  The result is the error, the local id and the
\* store afterwards.
FetchDatasetBatch(store, uid, rec, batchErr, commitErr, used, t) ==
    LET out == syncRecord(store, metaxDatasetQvainId(store, uid),
                          qvainDatasetSyncTime(store, uid), uid, rec, used)
    IN  IF batchErr # "nil" THEN [err |-> batchErr, id |-> NoId, store |-> store]
        ELSE IF out.err # "nil" THEN [err |-> out.err, id |-> NoId, store |-> store]
        ELSE IF commitErr # "nil"
        THEN [err |-> commitErr, id |-> NoId, store |-> store]
        ELSE [err |-> "nil", id |-> out.id,
              store |-> ApplyOps(store, out.ops, uid, t)]

\* the two calls that run a remote procedure of the upstream on a dataset
RpcOps == {"ChangeDatasetCumulativeState", "RefreshDatasetDirectoryContent"}

\* an upstream call of the log: its name and the identifier it is about
UpCall(call, identifier) == [call |-> call, identifier |-> identifier]

\* ChangeDatasetCumulativeState / RefreshDatasetDirectoryContent, up to the
\* remote procedure call: load the record for the owner, check its family,
\* read the identifier from its blob
RpcCall ==
    /\ pub.pc = "idle"
    /\ \E op \in RpcOps, id \in PublishIds, uid \in Uids :
        LET err == GetWithOwnerErr(db, id, uid)
            call == [NoCall EXCEPT !.op = op, !.id = id, !.owner = uid,
                                   !.identity = Identities[uid]]
        IN  IF err # "nil"
            THEN pub' = Finish(call, err) /\ upcalls' = <<>>
            ELSE IF db[id].family # MetaxDatasetFamily
            THEN pub' = Finish(call, "NotMetaxDataset") /\ upcalls' = <<>>
            ELSE IF GetIdentifier(db[id].blob) = ""
            THEN pub' = Finish(call, "IdentifierNotFound") /\ upcalls' = <<>>
            ELSE /\ pub' = [call EXCEPT !.pc = "rpc",
                                        !.versionId = GetIdentifier(db[id].blob)]
                 /\ upcalls' = <<UpCall(op, GetIdentifier(db[id].blob))>>
    /\ db0' = db
    /\ UNCHANGED <<db, now, proxyVars, syncVars, validateVars, metaxVars, lookup>>

\* the identifiers of a new version that the remote procedure may return
NewVersionIdentifiers == {"", "urn2"}

\* from the answer of the remote procedure to the api.GetId of the first
\* FetchDataset
RpcReturned ==
    /\ pub.pc = "rpc"
    /\ \/ \E e \in ApiErrors :
            /\ pub' = FinishApi(pub, e)
            /\ upcalls' = upcalls
       \/ \E newMetaxIdentifier \in NewVersionIdentifiers :
            /\ pub' = [pub EXCEPT !.pc = "fetch",
                                  !.newVersionId = newMetaxIdentifier]
            /\ upcalls' = Append(upcalls, UpCall("GetId", pub.versionId))
    /\ UNCHANGED <<db, db0, now, proxyVars, syncVars, validateVars, metaxVars, lookup>>

\* the rest of a FetchDataset of the call, for the record api.GetId returned
RpcFetchDataset(identifier, apiErr, batchErr, commitErr) ==
    LET found == GetId(upstream, identifier)
    IN  IF apiErr # "nil" THEN [err |-> apiErr, id |-> NoId, store |-> db]
        ELSE IF found = <<>> THEN [err |-> "NotFound", id |-> NoId, store |-> db]
        ELSE FetchDatasetBatch(db, pub.owner, found[1], batchErr, commitErr,
                               UsedIds, now)

\* the first FetchDataset when the call ends after it, new version or not
RpcFetchedMutNoSecond ==
    /\ pub.pc = "fetch"
    /\ \E apiErr \in {"nil"} \cup ApiErrors,
          batchErr \in {"nil", "ErrConnection"},
          commitErr \in {"nil", "ErrConnection"} :
        LET f == RpcFetchDataset(pub.versionId, apiErr, batchErr, commitErr)
        IN  /\ db' = f.store
            /\ pub' = IF f.err # "nil" THEN Finish(pub, f.err)
                      ELSE Finish(pub, "nil")
            /\ upcalls' = upcalls
    /\ UNCHANGED <<db0, now, proxyVars, syncVars, validateVars, metaxVars, lookup>>

\* the first FetchDataset, of the dataset itself, and after it the api.GetId
\* of the second when the remote procedure named a new version
RpcFetched ==
    /\ pub.pc = "fetch"
    /\ \E apiErr \in {"nil"} \cup ApiErrors,
          batchErr \in {"nil", "ErrConnection"},
          commitErr \in {"nil", "ErrConnection"} :
        LET f == RpcFetchDataset(pub.versionId, apiErr, batchErr, commitErr)
        IN  /\ db' = f.store
            /\ IF f.err # "nil"
               THEN pub' = Finish(pub, f.err) /\ upcalls' = upcalls
               ELSE IF f.id = NoId
               THEN pub' = Finish(pub, "panic") /\ upcalls' = upcalls
               ELSE IF pub.newVersionId # ""
               THEN /\ pub' = [pub EXCEPT !.pc = "fetchnew"]
                    /\ upcalls' = Append(upcalls, UpCall("GetId", pub.newVersionId))
               ELSE pub' = Finish(pub, "nil") /\ upcalls' = upcalls
    /\ UNCHANGED <<db0, now, proxyVars, syncVars, validateVars, metaxVars, lookup>>

\* the second FetchDataset, of the new version
RpcFetchedNew ==
    /\ pub.pc = "fetchnew"
    /\ \E apiErr \in {"nil"} \cup ApiErrors,
          batchErr \in {"nil", "ErrConnection"},
          commitErr \in {"nil", "ErrConnection"} :
        LET f == RpcFetchDataset(pub.newVersionId, apiErr, batchErr, commitErr)
        IN  /\ db' = f.store
            /\ pub' = IF f.err # "nil" THEN Finish(pub, f.err)
                      ELSE IF f.id = NoId THEN Finish(pub, "panic")
                      ELSE Finish([pub EXCEPT !.newQVersionId = f.id], "nil")
    /\ UNCHANGED <<db0, now, upcalls, proxyVars, syncVars, validateVars, metaxVars, lookup>>

\* the caller takes the result of the call; the clock may have advanced
RpcDone ==
    /\ pub.pc = "done"
    /\ pub' = NoCall
    /\ upcalls' = <<>>
    /\ \E t \in Times : t >= now /\ now' = t
    /\ UNCHANGED <<db, db0, proxyVars, syncVars, validateVars, metaxVars, lookup>>

\* the clock advances
Tick ==
    /\ now < MaxTime
    /\ now' = now + 1
    /\ UNCHANGED <<db, db0, upcalls, pub, proxyVars, syncVars, validateVars, metaxVars, lookup>>

-----------------------------------------------------------------------------
(***************************************************************************)
(* Authorization proxy (api_proxy.go)                                      *)
(***************************************************************************)
\* Request paths as their segments: "/files/x" is <<"files", "x">> and
\* "/directories" (no trailing slash) is <<"directories">>.
Paths == {<<"directories", "x">>, <<"files", "x">>, <<"datasets", "x">>,
          <<"directories">>}
Methods == {"GET", "POST", "PATCH"}

\* strings.HasPrefix(r.URL.Path, "/" + first + "/")
HasPathPrefix(path, first) == Len(path) >= 2 /\ path[1] = first

\* the path test of ServeHTTP
PathAllowedMutAny(path) == TRUE

PathAllowed(path) ==
    HasPathPrefix(path, "directories") \/ HasPathPrefix(path, "files")

\* url.Values: each key maps to the list of its values; a key is found when
\* the list is not empty.  A value of allowed_projects is a comma-separated
\* list, the tuple of its tokens.
Queries ==
    [allowed_projects   : {<<>>, << <<"P1", ",", "P3">> >>},
     project_identifier : {<<>>, <<"P3">>},
     project            : SeqsUpTo({"P1", "P3"}, MaxProjectParams)]

Requests ==
    [path : Paths, method : Methods, sess : SessionOutcomes,
     query : Queries, body : RequestBodies]

\* checkProjectIdentifierMap / checkProjectIdentifierArray /
\* checkProjectIdentifier: the recursive walk of the response
RECURSIVE checkProjectIdentifierMap(_, _)
RECURSIVE checkProjectIdentifierArray(_, _)

checkProjectIdentifierMap(projects, m) ==
    \A key \in DOMAIN m :
        LET vv == m[key] IN
        CASE vv.t = "str" ->
                ~(key = "project_identifier" /\ ~HasProject(projects, vv.v))
          [] vv.t = "obj" -> checkProjectIdentifierMap(projects, vv.v)
          [] vv.t = "arr" -> checkProjectIdentifierArray(projects, vv.v)
          [] OTHER -> TRUE

checkProjectIdentifierArray(projects, a) ==
    \A i \in 1..Len(a) :
        LET vv == a[i] IN
        CASE vv.t = "obj" -> checkProjectIdentifierMap(projects, vv.v)
          [] vv.t = "arr" -> checkProjectIdentifierArray(projects, vv.v)
          [] OTHER -> TRUE

\* the walk of the older handler: only the top-level project_identifier and
\* the project_identifier of each element of a top-level "results" array
checkProjectIdentifierMutTyped(projects, obj) ==
    IF obj.t # "obj" THEN TRUE
    ELSE LET m == obj.v
             top == IF "project_identifier" \in DOMAIN m
                       /\ m["project_identifier"].t = "str"
                    THEN HasProject(projects, m["project_identifier"].v)
                    ELSE TRUE
             res == IF "results" \in DOMAIN m /\ m["results"].t = "arr"
                    THEN \A i \in 1..Len(m["results"].v) :
                            LET e == m["results"].v[i] IN
                            IF e.t = "obj" /\ "project_identifier" \in DOMAIN e.v
                               /\ e.v["project_identifier"].t = "str"
                            THEN HasProject(projects, e.v["project_identifier"].v)
                            ELSE TRUE
                    ELSE TRUE
         IN top /\ res

checkProjectIdentifier(projects, obj) ==
    CASE obj.t = "obj" -> checkProjectIdentifierMap(projects, obj.v)
      [] obj.t = "arr" -> checkProjectIdentifierArray(projects, obj.v)
      [] OTHER -> TRUE

\* addPropertyToRequest: the body with key set to value on the root object,
\* or on each object of a root array; <<>> when the body is not JSON
SetKey(m, key, value) ==
    [k \in DOMAIN m \cup {key} |-> IF k = key THEN Str(value) ELSE m[k]]

addPropertyToRequestMutRootOnly(body, key, value) ==
    CASE body.t = "notjson" -> <<>>
      [] body.t = "obj" -> <<Obj(SetKey(body.v, key, value))>>
      [] OTHER -> <<body>>

addPropertyToRequest(body, key, value) ==
    CASE body.t = "notjson" -> <<>>
      [] body.t = "obj" -> <<Obj(SetKey(body.v, key, value))>>
      [] body.t = "arr" ->
            <<Arr([i \in 1..Len(body.v) |->
                     IF body.v[i].t = "obj"
                     THEN Obj(SetKey(body.v[i].v, key, value))
                     ELSE body.v[i]])>>
      [] OTHER -> <<body>>

\* addPropertyToRequest: r.ContentLength after the body is replaced, the
\* length of the marshalled body
requestContentLength(body, key, value) ==
    LET newBody == addPropertyToRequest(body, key, value)
    IN  IF newBody = <<>> THEN JsonLen(body) ELSE JsonLen(newBody[1])

\* the query after the /files/ rename: query.Del("project"),
\* query.Add("project_identifier", project)
RenameProjectMutKeepProject(query, project) ==
    [query EXCEPT !.project_identifier = Append(@, project)]

RenameProject(query, project) ==
    [query EXCEPT !.project = <<>>,
                  !.project_identifier = Append(@, project)]

AddAllowedProjectsMutGetToo(u, method, query) ==
    [query EXCEPT !.allowed_projects =
         Append(@, AllowedProjectsValue(u.projects))]

\* ApiProxy.ServeHTTP, the step before the body is rewritten: every method
\* but GET gets the user's projects appended to the query as allowed_projects
AddAllowedProjects(u, method, query) ==
    IF method # "GET"
    THEN [query EXCEPT !.allowed_projects =
              Append(@, AllowedProjectsValue(u.projects))]
    ELSE query

\* ApiProxy.ServeHTTP up to the call of the reverse proxy: the writer and
\* log after the checks, and in fwd the request handed to the reverse proxy
\* (<<>> when the handler returned before).
ServeHTTPChecks(u, r) ==
    LET io0 == [w |-> NewWriter, log |-> <<>>]
        \* the path check writes its answer and does not return
        io1 == IF ~PathAllowed(r.path)
               THEN loggedJSONError(io0, "access denied", 403)
               ELSE io0
        stop(io) == [io |-> io, fwd |-> <<>>]
        q0 == r.query
        project == IF q0.project # <<>> THEN q0.project[1] ELSE "none"
        q1 == IF q0.project # <<>> /\ HasPathPrefix(r.path, "files")
              THEN RenameProject(q0, project) ELSE q0
        q2 == AddAllowedProjects(u, r.method, q1)
        key == IF r.method # "POST" THEN "user_modified" ELSE "user_created"
        newBody == IF r.method # "GET"
                   THEN addPropertyToRequest(r.body, key, u.identity)
                   ELSE <<r.body>>
        \* the client's Content-Length is the length of the body it sent
        newLength == IF r.method # "GET"
                     THEN requestContentLength(r.body, key, u.identity)
                     ELSE JsonLen(r.body)
    IN  IF r.sess # "nil" THEN stop(sessionError(io1, r.sess))
        ELSE IF q0.allowed_projects # <<>>
        THEN stop(loggedJSONError(io1,
                "bad request: allowed_projects is not allowed", 400))
        ELSE IF q0.project_identifier # <<>>
        THEN stop(loggedJSONError(io1,
                "bad request: project_identifier is not allowed", 400))
        ELSE IF Len(q0.project) > 1
        THEN stop(loggedJSONError(io1,
                "bad request: multiple projects in query", 400))
        ELSE IF q0.project # <<>> /\ Len(u.projects) < 1
        THEN stop(loggedJSONError(io1,
                "access denied: user has no projects", 403))
        ELSE IF q0.project # <<>> /\ ~HasProject(u.projects, project)
        THEN stop(loggedJSONError(io1,
                "access denied: invalid project", 403))
        ELSE IF newBody = <<>>
        THEN stop(loggedJSONError(io1, "invalid json", 500))
        ELSE [io  |-> io1,
              fwd |-> <<[path |-> r.path, method |-> r.method,
                         query |-> q2, body |-> newBody[1],
                         contentLength |-> newLength]>>]

\* ApiProxy.ServeHTTP: a request arrives and is answered or forwarded
ServeHTTP ==
    /\ ppc = "idle"
    /\ \E r \in Requests :
        LET out == ServeHTTPChecks(user, r) IN
        /\ req' = <<r>>
        /\ w' = out.io.w
        /\ errlog' = out.io.log
        /\ upreq' = out.fwd
        /\ ppc' = IF out.fwd = <<>> THEN "done" ELSE "forwarded"
    /\ UNCHANGED <<user, resp, cresp, walk, storeVars, pub, syncVars, validateVars, metaxVars, lookup>>

\* what the upstream may answer
UpstreamStatuses == {200, 201, 404, 500}
UpstreamHeaders == {"X-Dummy-Header"}
UpstreamResponses ==
    [status : {200, 201}, body : ResponseBodies, hdr : {UpstreamHeaders}]
    \cup [status : {404, 500}, body : {NotJson, Obj([detail |-> Str("P3")])},
          hdr : {UpstreamHeaders}]

NoResponse == [status |-> 0, body |-> <<>>, hdr |-> {}]

\* the upstream answers the forwarded request
RoundTrip ==
    /\ ppc = "forwarded"
    /\ \E r \in UpstreamResponses : resp' = r
    /\ ppc' = "responded"
    /\ UNCHANGED <<user, req, w, upreq, cresp, walk, errlog, storeVars, pub, syncVars, validateVars, metaxVars, lookup>>

\* makeProxyErrorHandler: the upstream could not be reached
ProxyError ==
    /\ ppc = "forwarded"
    /\ \E e \in NetErrors :
        LET io == loggedJSONError([w |-> w, log |-> errlog],
                                  convertNetError(e), 502)
        IN w' = io.w /\ errlog' = io.log
    /\ ppc' = "done"
    /\ UNCHANGED <<user, req, upreq, resp, cresp, walk, storeVars, pub, syncVars, validateVars, metaxVars, lookup>>

\* recorderToResponse: the response becomes what the recorder holds
recorderToResponse(io) ==
    [status |-> io.w.status, body |-> io.w.body, hdr |-> io.w.hdr]

ClearedHeaderMutKept(hdr) == hdr

\* response.Header = make(http.Header): the header of the upstream response
\* is replaced by an empty one
ClearedHeader(hdr) == {}

\* makeProxyModifyResponse: the response handed on, the walk's outcome and
\* the log; sess is what the second session lookup returns.  The body of the
\* result is a list of chunks.
ModifyResponseResult(u, r, sess, log) ==
    LET rec0 == [w |-> NewWriter, log |-> log]
        keep == [resp |-> [status |-> r.status, body |-> <<UpstreamBody(r.body)>>,
                           hdr |-> ClearedHeader(r.hdr)],
                 walk |-> "skipped", log |-> log]
        replace(io, wk) ==
            [resp |-> recorderToResponse(io), walk |-> wk, log |-> io.log]
    IN  IF r.status < 200 \/ r.status >= 300 THEN keep
        ELSE IF r.body.t = "notjson"
        THEN replace(loggedJSONError(rec0, "response is not json", 500),
                     "notjson")
        ELSE IF sess # "nil"
        THEN replace(sessionError(rec0, sess), "nosession")
        ELSE IF ~checkProjectIdentifier(u.projects, r.body)
        THEN replace(loggedJSONError(rec0, "invalid project in response", 403),
                     "fail")
        ELSE [keep EXCEPT !.walk = "pass"]

\* httputil.ReverseProxy after ModifyResponse: copy the headers, write the
\* status, copy the body
CopyResponse(wr, r) ==
    LET w1 == IF wr.wroteHeader THEN wr ELSE [wr EXCEPT !.hdr = @ \cup r.hdr]
        w2 == WriteHeader(w1, r.status)
    IN [w2 EXCEPT !.body = @ \o r.body]

\* the response passes ModifyResponse and is copied to the client
ModifyResponse ==
    /\ ppc = "responded"
    /\ \E sess \in {"nil", "ErrSessionNotFound"} :
        LET out == ModifyResponseResult(user, resp, sess, errlog) IN
        /\ cresp' = out.resp
        /\ walk' = out.walk
        /\ errlog' = out.log
        /\ w' = CopyResponse(w, out.resp)
    /\ ppc' = "done"
    /\ UNCHANGED <<user, req, upreq, resp, storeVars, pub, syncVars, validateVars, metaxVars, lookup>>

\* the proxy at rest
ProxyIdle ==
    /\ ppc = "idle"
    /\ req = <<>>
    /\ w = NewWriter
    /\ upreq = <<>>
    /\ resp = [status |-> 0, body |-> NotJson, hdr |-> {}]
    /\ cresp = NoResponse
    /\ walk = "none"
    /\ errlog = <<>>

InitProxy ==
    /\ StoreIdle
    /\ PublishIdle
    /\ ValidateIdle
    /\ MetaxIdle
    /\ LookupIdle
    /\ SyncIdle
    /\ user \in [identity : {"matti"}, projects : UserProjectLists]
    /\ ppc = "idle"
    /\ req = <<>>
    /\ w = NewWriter
    /\ upreq = <<>>
    /\ resp = [status |-> 0, body |-> NotJson, hdr |-> {}]
    /\ cresp = NoResponse
    /\ walk = "none"
    /\ errlog = <<>>

NextProxy == ServeHTTP \/ RoundTrip \/ ProxyError \/ ModifyResponse

SpecProxy == InitProxy /\ [][NextProxy]_vars

-----------------------------------------------------------------------------
(***************************************************************************)
(* Publication engine: specification                                       *)
(***************************************************************************)
InitPublish ==
    /\ ProxyIdle
    /\ SyncIdle
    /\ user = [identity |-> "matti", projects |-> <<>>]
    /\ PublishIdle
    /\ ValidateIdle
    /\ MetaxIdle
    /\ LookupIdle
    /\ db \in {[k \in {"r1"} |-> r] : r \in InitialRecords}
    /\ db0 = db
    /\ now \in {t \in 1..MaxTime : \A k \in DOMAIN db : db[k].synced <= t}
    /\ upcalls = <<>>

NextPublish ==
    \/ Publish
    \/ PublishStored
    \/ PublishNewVersion
    \/ UnpublishAndDelete
    \/ Unpublished
    \/ Returned
    \/ Respond

SpecPublish == InitPublish /\ [][NextPublish]_vars

-----------------------------------------------------------------------------
(***************************************************************************)
(* Sync engine: specifications                                             *)
(***************************************************************************)
\* what the upstream may hold for the user
Feeds == SeqsUpTo(StreamRecords, MaxStream)

\* the stores a sync may find
InitialStores ==
    {EmptyMap} \cup {[k \in {"r1"} |-> r] : r \in InitialRecords}

\* one sync call at a time
InitSync ==
    /\ ProxyIdle
    /\ user = [identity |-> "matti", projects |-> <<>>]
    /\ PublishIdle
    /\ ValidateIdle
    /\ MetaxIdle
    /\ LookupIdle
    /\ now = 1
    /\ db \in {s \in InitialStores : \A k \in DOMAIN s : s[k].synced <= now}
    /\ db0 = db
    /\ upcalls = <<>>
    /\ upstream \in Feeds
    /\ tasks = [t \in Tasks |-> IF t = "t1" THEN IdleTask ELSE OffTask]
    /\ runs = MaxRuns

NextSync ==
    \/ \E t \in Tasks : Fetch(t)
    \/ \E t \in Tasks : FetchSince(t)
    \/ \E t \in Tasks : FetchAll(t)
    \/ \E t \in Tasks : FetchDataset(t)
    \/ \E t \in Tasks : FetchDatasetSync(t)
    \/ \E t \in Tasks : syncBatch(t)
    \/ \E t \in Tasks : Produce(t)
    \/ \E t \in Tasks : ProduceError(t)
    \/ \E t \in Tasks : ProducerExit(t)
    \/ \E t \in Tasks : RecvRecord(t)
    \/ \E t \in Tasks : RecvClosed(t)
    \/ \E t \in Tasks : RecvErr(t)
    \/ \E t \in Tasks : RecvTimeout(t)
    \/ \E t \in Tasks : SyncReturned(t)
    \/ Tick

SpecSync == InitSync /\ [][NextSync]_vars

\* two sync calls at once: the sync started by a login and the one of a
\* dataset listing, or two requests of one user
ConcFeeds ==
    {<<Blob("urn1", "r1", "jack", "", MaxTime, FALSE, "")>>,
     <<Blob("urn2", "", "jack", "", 1, FALSE, "")>>}

InitSyncConc ==
    /\ ProxyIdle
    /\ user = [identity |-> "matti", projects |-> <<>>]
    /\ PublishIdle
    /\ ValidateIdle
    /\ MetaxIdle
    /\ LookupIdle
    /\ db = [k \in {"r1"} |->
                Record("u1", TRUE, 1, Blob("urn1", "r1", "jack", "", 1, FALSE, ""))]
    /\ db0 = db
    /\ now = 1
    /\ upcalls = <<>>
    /\ upstream \in ConcFeeds
    /\ \E uid \in Uids :
        tasks = [t \in Tasks |-> IF t = "t1" THEN IdleTask ELSE IdleTaskOf(uid)]
    /\ runs = Cardinality(Tasks)

SpecSyncConc == InitSyncConc /\ [][NextSync]_vars

\* the upstream holds one record of the user's dataset r1, with any of its
\* four dates set
DatedRecords ==
    {[Blob("urn1", "r1", "jack", "", m, FALSE, "") EXCEPT
        !.date_created = c, !.date_deprecated = d, !.date_removed = r] :
        m \in Times, c \in Times, d \in Times, r \in Times}

\* one sync call over one dated record
InitSyncDates ==
    /\ ProxyIdle
    /\ user = [identity |-> "matti", projects |-> <<>>]
    /\ PublishIdle
    /\ ValidateIdle
    /\ MetaxIdle
    /\ LookupIdle
    /\ now = 1
    /\ db \in {s \in InitialStores :
                s # EmptyMap /\ \A k \in DOMAIN s : s[k].synced <= now}
    /\ db0 = db
    /\ upcalls = <<>>
    /\ \E rec \in DatedRecords : upstream = <<rec>>
    /\ tasks = [t \in Tasks |-> IF t = "t1" THEN IdleTask ELSE OffTask]
    /\ runs = 1

SpecSyncDates == InitSyncDates /\ [][NextSync]_vars

-----------------------------------------------------------------------------
(***************************************************************************)
(* Remote procedure calls: specification                                   *)
(***************************************************************************)
\* what the upstream holds: the user's dataset, with or without a new version
RpcFeeds ==
    {<<Blob("urn1", "r1", "jack", "", m, FALSE, "")>> : m \in Times}
    \cup {<<Blob("urn1", "r1", "jack", "", m, FALSE, "urn2"),
            Blob("urn2", "", "jack", "", m, FALSE, "")>> : m \in Times}

InitRpc ==
    /\ ProxyIdle
    /\ user = [identity |-> "matti", projects |-> <<>>]
    /\ PublishIdle
    /\ ValidateIdle
    /\ MetaxIdle
    /\ LookupIdle
    /\ db \in {[k \in {"r1"} |-> r] : r \in InitialRecords}
    /\ db0 = db
    /\ now \in {t \in 1..MaxTime : \A k \in DOMAIN db : db[k].synced <= t}
    /\ upcalls = <<>>
    /\ upstream \in RpcFeeds
    /\ tasks = [t \in Tasks |-> OffTask]
    /\ runs = 0

NextRpc ==
    \/ RpcCall
    \/ RpcReturned
    \/ RpcFetched
    \/ RpcFetchedNew
    \/ RpcDone

SpecRpc == InitRpc /\ [][NextRpc]_vars

-----------------------------------------------------------------------------
(***************************************************************************)
(* Properties of the authorization proxy                                   *)
(***************************************************************************)
Range(seq) == {seq[i] : i \in 1..Len(seq)}

\* every string found under a key named project_identifier, at any depth
RECURSIVE PidStrings(_)
PidStrings(j) ==
    CASE j.t = "obj" ->
            UNION {(IF k = "project_identifier" /\ j.v[k].t = "str"
                    THEN {j.v[k].v} ELSE {}) \cup PidStrings(j.v[k])
                   : k \in DOMAIN j.v}
      [] j.t = "arr" -> UNION {PidStrings(j.v[i]) : i \in 1..Len(j.v)}
      [] OTHER -> {}

\* the client's body holds a chunk that came from the upstream
UpstreamBodyReachedClient ==
    \E i \in 1..Len(w.body) : w.body[i].kind = "upstream"

Answered2xx == ppc = "done" /\ upreq # <<>> /\ resp.status \in 200..299

\* C2: for every 2xx upstream response the client receives the upstream body
\* only if the body parses as JSON and every string under a key named
\* project_identifier, at any depth, is one of the user's projects; a failed
\* walk is replaced by 403 "invalid project in response", a non-JSON body by
\* 500, and then nothing of the upstream body reaches the client.
C2_ResponseWalk ==
    Answered2xx =>
        LET json == resp.body.t # "notjson"
            pidsOk == json /\ PidStrings(resp.body) \subseteq Range(user.projects)
        IN  /\ UpstreamBodyReachedClient => pidsOk
            /\ ~json => cresp.status = 500 /\ walk = "notjson"
            /\ (walk = "fail") <=> (json /\ ~pidsOk /\ walk # "nosession")
            /\ walk = "fail" =>
                 /\ cresp.status = 403
                 /\ Len(cresp.body) = 1
                 /\ cresp.body[1].kind = "error"
                 /\ cresp.body[1].msg = "invalid project in response"

\* C2 witness: a 2xx body whose foreign project is nested under another key
\* was replaced by 403
C2_Witness ==
    /\ Answered2xx
    /\ walk = "fail"
    /\ resp.body.t = "obj"
    /\ "parent" \in DOMAIN resp.body.v
    /\ ~UpstreamBodyReachedClient

\* the path starts with neither /directories/ nor /files/
RejectedPath(path) ==
    ~(\E first \in {"directories", "files"} : Len(path) > 1 /\ path[1] = first)

ProjectParamOk(q, projects) ==
    q.project = <<>> \/ (Len(q.project) = 1 /\ q.project[1] \in Range(projects))

C6_RejectedPath403 ==
    req # <<>> /\ RejectedPath(req[1].path) => w.wroteHeader /\ w.status = 403

\* C6 witness: a request outside the two prefixes that went on to the
\* upstream and got a 200 there is still answered 403
C6_Witness ==
    /\ ppc = "done"
    /\ RejectedPath(req[1].path)
    /\ upreq # <<>>
    /\ resp.status = 200
    /\ w.status = 403

-----------------------------------------------------------------------------
(***************************************************************************)
(* Publication engine: properties                                          *)
(***************************************************************************)
\* a finished Publish whose upstream response announced a new version
PublishedWithNewVersion ==
    /\ pub.op = "publish"
    /\ pub.pc = "done"
    /\ pub.res # <<>>
    /\ MaybeNewVersionId(pub.res[1]) # ""

\* both records reflect the upstream response
BothRecordsStored ==
    /\ db[pub.id].published
    /\ db[pub.id].blob = pub.res[1]
    /\ pub.newQVersionId \in DOMAIN db \ DOMAIN db0
    /\ GetIdentifier(db[pub.newQVersionId].blob) = MaybeNewVersionId(pub.res[1])

\* C3: after a run of Publish whose upstream response carries a new version,
\* either the parent record and the new-version record both reflect the
\* upstream response, or the datastore is as it was before the run.
C3_PublishAtomic ==
    PublishedWithNewVersion => (BothRecordsStored \/ db = db0)

\* C4: unpublish_and_delete removes the local record only after the upstream
\* delete has been called, and when the upstream call fails with an error
\* other than NotFound the local record still exists, unchanged, when the
\* operation returns.
C4_UpstreamFirstFailClosed ==
    pub.op = "unpublish" =>
        /\ (pub.id \in DOMAIN db0 /\ pub.id \notin DOMAIN db) =>
                (upcalls # <<>> /\ upcalls[Len(upcalls)] = "Delete")
        /\ pub.pc = "delete" => db = db0
        /\ (pub.pc = "done" /\ pub.apiErr \in ApiErrors) =>
                (pub.id \in DOMAIN db /\ db = db0)

\* an unpublish of a published record failed upstream and returned
C4_Witness ==
    /\ pub.op = "unpublish"
    /\ pub.pc = "done"
    /\ pub.apiErr \in ApiErrors
    /\ pub.id \in DOMAIN db
    /\ db[pub.id].published
    /\ upcalls[Len(upcalls)] = "Delete"

-----------------------------------------------------------------------------
(***************************************************************************)
(* Sync engine: properties                                                 *)
(***************************************************************************)
\* the task is inside a batch: opened, not yet returned
InBatch(t) == tasks[t].pc = "select"

\* the last batch of the task ended with the upstream stream exhausted: no
\* stream error, every announced record read
Exhausted(task) == task.perr = "nil" /\ task.tally.read = task.total

\* C1: a batch's writes are visible only after a commit taken when the
\* upstream stream was exhausted; while the batch runs, and after every
\* batch that ended in another way, the datastore is as the batch found it.
C1_AllOrNothing ==
    \A t \in Tasks :
        /\ InBatch(t) => db = tasks[t].dbOpen
        /\ (tasks[t].ended /\ ~(tasks[t].committed /\ Exhausted(tasks[t])))
                => db = tasks[t].dbOpen

\* C7: no two tasks of the same user are inside a batch at once.
C7_OneBatchPerUser ==
    \A t, u \in Tasks :
        (t # u /\ InBatch(t) /\ InBatch(u)) => tasks[t].uid # tasks[u].uid

\* C8: a batch whose stream reported an error before it was exhausted, and
\* which did not run into its deadline, has not committed, has left the
\* datastore as it was and has returned that error.
C8_StreamErrorReturned ==
    \A t \in Tasks :
        (tasks[t].ended /\ tasks[t].perr # "nil" /\ ~tasks[t].timedOut) =>
            /\ ~tasks[t].committed
            /\ db = tasks[t].dbOpen
            /\ tasks[t].berr = tasks[t].perr

\* C9: a batch that ran into its deadline has not committed and has returned
\* an error.
C9_TimeoutReturnsError ==
    \A t \in Tasks :
        (tasks[t].ended /\ tasks[t].timedOut) =>
            /\ ~tasks[t].committed
            /\ db = tasks[t].dbOpen
            /\ tasks[t].berr # "nil"

\* less than RetryInterval seconds lie between the user's last sync and t
TooSoon(last, t) == last # 0 /\ Elapsed(last, t) < RetryInterval

\* C10: a Fetch called less than 10 seconds after the user's last sync ends
\* with TooSoon, having opened no batch and made no upstream call; FetchAll
\* and FetchSince never end with TooSoon.
C10_FetchRateLimit ==
    \A t \in Tasks :
        /\ (tasks[t].entry = "Fetch" /\ TooSoon(tasks[t].last, tasks[t].called))
                => /\ tasks[t].pc = "done"
                   /\ tasks[t].err = "TooSoon"
                   /\ tasks[t].opened = 0
                   /\ tasks[t].contacted = 0
        /\ tasks[t].entry \in {"FetchAll", "FetchSince"}
                => tasks[t].err # "TooSoon"

\* C12: in every batch, after each record, the records read are the records
\* written, deleted, skipped and failed together.
C12_TallyPartition ==
    \A t \in Tasks :
        LET tally == tasks[t].tally
        IN  tally.read =
                tally.written + tally.deleted + tally.skipped + tally.failed

\* a batch has read two records with different outcomes, one of them failed
C12_Witness ==
    \E t \in Tasks :
        /\ InBatch(t)
        /\ tasks[t].tally.read = 2
        /\ tasks[t].tally.failed = 1
        /\ tasks[t].tally.written + tasks[t].tally.skipped = 1

\* no upstream record of the task's stream is dated after the last sync of
\* one of the user's records: the upstream has not changed since
NoUpstreamChange(task) ==
    \A i \in 1..Len(upstream), k \in GetAllForUid(task.dbOpen, task.uid) :
        GetModificationDate(upstream[i]) <= task.dbOpen[k].synced

\* C11: the second of two clean runs of the same entry point, with nothing
\* changed in between, writes, deletes and fails nothing.
C11_SecondRunAllSkipped ==
    \A t \in Tasks :
        (/\ tasks[t].prev # "none"
         /\ tasks[t].prev = tasks[t].entry
         /\ NoUpstreamChange(tasks[t])) =>
            /\ tasks[t].tally.written = 0
            /\ tasks[t].tally.deleted = 0
            /\ tasks[t].tally.failed = 0

\* the errors syncRecord returns for one record
RecordErrors == {"ErrInvalidId", "ErrUnknownSchema", "ErrNotFound", "ErrUuid"}

RecordStep(t) ==
    /\ InBatch(t)
    /\ tasks[t].cq # <<>>
    /\ tasks'[t].pc = "select"
    /\ tasks'[t].tally.read = tasks[t].tally.read + 1

\* the record that the step processes
StepRecord(t) == Head(tasks[t].cq)

\* the step counts its record under the given outcome
Tallied(t, outcome) == tasks'[t].tally[outcome] = tasks[t].tally[outcome] + 1

\* the batch operations that the step issues and the batch accepts
Issued(t) ==
    SubSeq(tasks'[t].ops, Len(tasks[t].ops) + 1, Len(tasks'[t].ops))

\* the batch refuses an operation on the record with the given id
Refused(t, id) ==
    LET view == ApplyOps(db, tasks[t].ops, tasks[t].uid, now)
    IN  id \notin DOMAIN view \/ view[id].owner # tasks[t].uid

\* the local id of an upstream record: the record id of its editor object,
\* else the id the user's index holds for its identifier, else none
LocalId(task, rec) ==
    IF rec.editor # "" THEN rec.editor
    ELSE IF rec.identifier # "" /\ rec.identifier \in DOMAIN task.index
    THEN task.index[rec.identifier]
    ELSE NoId

\* the time of the last sync of the local record, 0 when there is none
LocalSynced(task, id) ==
    IF id \in DOMAIN task.synctime THEN task.synctime[id] ELSE 0

EffectiveTime(rec) ==
    LET dates == {rec.date_created, rec.modified, rec.date_deprecated,
                  rec.date_removed} \ {0}
    IN  IF dates = {} THEN 0
        ELSE CHOOSE m \in dates : \A d \in dates : d <= m

C17_PublishedIffIdentifier ==
    \A k \in DOMAIN db :
        db[k].published <=> GetIdentifier(db[k].blob) # ""

\* C18: no step sets the synced time of a record to an earlier time than the
\* record held before the step.
C18_SyncedMonotone ==
    [][\A k \in DOMAIN db \cap DOMAIN db' :
            db'[k].synced >= db[k].synced]_vars

\* the blob carries the identity under the key that Publish stamps for a
\* record found published or not, and the other key as the record had it
Stamped(blob, before, identity) ==
    IF before.published
    THEN /\ blob.user_modified = identity
         /\ blob.user_created = before.blob.user_created
    ELSE /\ blob.user_created = identity
         /\ blob.user_modified = before.blob.user_modified

\* C19: the blob that Publish sends upstream carries the owner's identity
\* under user_created when the record was not published and under
\* user_modified when it was, and after a successful Publish the stored blob
\* of the record carries that stamp.
C19_PublishStamp ==
    /\ (pub.op = "publish" /\ pub.sent # <<>>) =>
            Stamped(pub.sent[1], db0[pub.id], pub.identity)
    /\ (pub.op = "publish" /\ pub.pc = "done" /\ pub.err = "nil") =>
            Stamped(db[pub.id].blob, db0[pub.id], pub.identity)

\* a Publish of a published record has succeeded and the stored blob names
\* the owner under user_modified
C19_Witness ==
    /\ pub.op = "publish"
    /\ pub.pc = "done"
    /\ pub.err = "nil"
    /\ db0[pub.id].published
    /\ db0[pub.id].blob.user_modified # pub.identity
    /\ db[pub.id].blob.user_modified = pub.identity

\* the upstream calls of a remote procedure call that has come to its first
\* FetchDataset: the procedure, then api.GetId of the dataset
RpcFirstTwo ==
    <<UpCall(pub.op, GetIdentifier(db0[pub.id].blob)),
      UpCall("GetId", GetIdentifier(db0[pub.id].blob))>>

\* C20: a remote procedure call on a dataset makes its upstream calls in
\* order: the procedure for the identifier of the local blob, api.GetId of
\* that identifier, and api.GetId of the new identifier only when the
\* procedure returned one; a call that succeeds returns a new local id
\* exactly when the procedure returned a new identifier; a record without
\* identifier fails before any upstream call.
C20_RpcOrder ==
    pub.op \in RpcOps =>
        /\ pub.pc = "rpc" =>
                upcalls = <<UpCall(pub.op, GetIdentifier(db0[pub.id].blob))>>
        /\ pub.pc = "fetch" => upcalls = RpcFirstTwo
        /\ pub.pc = "fetchnew" =>
                /\ pub.newVersionId # ""
                /\ upcalls = Append(RpcFirstTwo, UpCall("GetId", pub.newVersionId))
        /\ (pub.pc = "done" /\ pub.err = "nil") =>
                /\ upcalls = IF pub.newVersionId = "" THEN RpcFirstTwo
                             ELSE Append(RpcFirstTwo,
                                         UpCall("GetId", pub.newVersionId))
                /\ pub.newQVersionId # NoId <=> pub.newVersionId # ""
                /\ pub.newQVersionId # NoId => pub.newQVersionId \in DOMAIN db
        /\ (pub.pc # "idle" /\ pub.id \in DOMAIN db0
                /\ db0[pub.id].owner = pub.owner
                /\ GetIdentifier(db0[pub.id].blob) = "") =>
                /\ pub.pc = "done"
                /\ pub.err # "nil"
                /\ upcalls = <<>>

\* a remote procedure call has succeeded with a new version: three upstream
\* calls and a new local id
C20_Witness ==
    /\ pub.op \in RpcOps
    /\ pub.pc = "done"
    /\ pub.err = "nil"
    /\ pub.newVersionId # ""
    /\ Len(upcalls) = 3
    /\ pub.newQVersionId \in DOMAIN db

-----------------------------------------------------------------------------
(***************************************************************************)
(* Forwarded requests and proxied responses                                *)
(***************************************************************************)
\* the projects a comma-separated value lists, as its receiver reads them
Listed(value) == SplitComma(value)

\* C21: every forwarded request of a method other than GET carries exactly
\* one allowed_projects parameter, the user's projects joined by commas, so
\* that every project it lists is one of the user's (for a user without
\* projects the value is empty); a forwarded GET carries no allowed_projects.
C21_AllowedProjects ==
    upreq # <<>> =>
        LET values == upreq[1].query.allowed_projects
        IN  IF upreq[1].method # "GET"
            THEN /\ values = <<JoinComma(user.projects)>>
                 /\ user.projects = <<>> => values[1] = <<>>
                 /\ user.projects # <<>> =>
                        \A i \in DOMAIN Listed(values[1]) :
                            /\ Len(Listed(values[1])[i]) = 1
                            /\ HasProject(user.projects, Listed(values[1])[i][1])
            ELSE values = <<>>

\* a PATCH of a user with two projects has been forwarded with both listed
C21_Witness ==
    /\ upreq # <<>>
    /\ upreq[1].method = "PATCH"
    /\ Len(user.projects) = 2
    /\ upreq[1].query.allowed_projects = << <<"P1", ",", "P2">> >>
    /\ Len(Listed(upreq[1].query.allowed_projects[1])) = 2

\* the key ServeHTTP stamps for a method
StampKey(method) == IF method = "POST" THEN "user_created" ELSE "user_modified"

\* the object carries the user's identity under key and its other members
\* are those of the object sent
StampedObject(sent, got, key) ==
    /\ got.t = "obj"
    /\ DOMAIN got.v = DOMAIN sent.v \cup {key}
    /\ got.v[key] = Str(user.identity)
    /\ \A k \in DOMAIN sent.v \ {key} : got.v[k] = sent.v[k]

\* C22: the body of every forwarded request of a method other than GET has
\* the user's identity under user_created (POST) or user_modified (any other
\* method) on the top-level object, or on every object element of a
\* top-level array while the other elements are those sent, and the
\* forwarded Content-Length is the length of the rewritten body.
C22_BodyStamped ==
    (upreq # <<>> /\ upreq[1].method # "GET") =>
        LET sent == req[1].body
            got  == upreq[1].body
            key  == StampKey(upreq[1].method)
        IN  /\ sent.t = "obj" => StampedObject(sent, got, key)
            /\ sent.t = "arr" =>
                  /\ got.t = "arr"
                  /\ Len(got.v) = Len(sent.v)
                  /\ \A i \in 1..Len(sent.v) :
                        IF sent.v[i].t = "obj"
                        THEN StampedObject(sent.v[i], got.v[i], key)
                        ELSE got.v[i] = sent.v[i]
            /\ upreq[1].contentLength = JsonLen(got)

\* a POST of an array with an object and a string has been forwarded: the
\* object is stamped, the string is not, and the length has grown
C22_Witness ==
    /\ upreq # <<>>
    /\ upreq[1].method = "POST"
    /\ req[1].body.t = "arr"
    /\ upreq[1].body.v[1].v["user_created"] = Str(user.identity)
    /\ upreq[1].body.v[2] = Str("x")
    /\ upreq[1].contentLength > JsonLen(req[1].body)

\* C23: a forwarded request under /files/ that carried a project parameter
\* reaches the upstream with that value under project_identifier and without
\* a project key; one under /directories/ reaches it with project kept and
\* without project_identifier.
C23_ProjectParameter ==
    (upreq # <<>> /\ req[1].query.project # <<>>) =>
        LET sent == req[1].query
            got  == upreq[1].query
        IN  /\ HasPathPrefix(req[1].path, "files") =>
                  /\ got.project_identifier = <<sent.project[1]>>
                  /\ got.project = <<>>
            /\ HasPathPrefix(req[1].path, "directories") =>
                  /\ got.project = sent.project
                  /\ got.project_identifier = <<>>

\* a request under /files/ with project P1 has been forwarded with
\* project_identifier P1
C23_Witness ==
    /\ upreq # <<>>
    /\ HasPathPrefix(req[1].path, "files")
    /\ req[1].query.project = <<"P1">>
    /\ upreq[1].query.project_identifier = <<"P1">>
    /\ upreq[1].query.project = <<>>

\* a response of the upstream has been handed on to the client
Proxied == ppc = "done" /\ cresp # NoResponse

-----------------------------------------------------------------------------
(***************************************************************************)
(* Error answers                                                           *)
(***************************************************************************)
\* the log holds an event with this error id
Logged(id) ==
    \E i \in 1..Len(errlog) :
        "error_id" \in DOMAIN errlog[i] /\ errlog[i].error_id = id

\* C25 (as claimed): every failure answer of the publish and delete handlers
\* carries an error_id in its body and the log holds an event with the same
\* id, on every error path, failures relayed from the upstream included.
C25_ErrorIdLogged ==
    (pub.pc = "answered" /\ pub.err # "nil") =>
        /\ Len(w.body) = 1
        /\ "error_id" \in DOMAIN w.body[1]
        /\ Logged(w.body[1].error_id)

\* the status the client is to see for a status of the upstream
ShownStatus(s) ==
    IF s \in 300..399 THEN 200
    ELSE IF s \in {401, 403} THEN 500
    ELSE IF s = 500 THEN 502
    ELSE IF s = 503 THEN 504
    ELSE s

\* C26: when the handler relays a failure of the upstream with status s, the
\* status of the answer is 200 for every 3xx, 500 for 401 and 403, 502 for
\* 500, 504 for 503 and s itself for every other status.
C26_StatusMapping ==
    (pub.pc = "answered" /\ pub.err = "ApiError") =>
        /\ w.wroteHeader
        /\ w.status = ShownStatus(pub.status)
        /\ w.body[1].status = ShownStatus(pub.status)

\* an upstream failure with status 403 has been answered with 500
C26_Witness ==
    /\ pub.pc = "answered"
    /\ pub.err = "ApiError"
    /\ pub.status = 403
    /\ w.status = 500

-----------------------------------------------------------------------------
(***************************************************************************)
(* Validation of updates (MetaxDataset.ValidateUpdated)                    *)
(*                                                                         *)
(* A blob is read through gjson paths only, so it is kept as the map from  *)
(* the paths read to their Raw text; "" is the Raw of a path that does not *)
(* exist.                                                                  *)
(***************************************************************************)
\* most fields in which an updated dataset differs from the stored one
MaxEdits == 2

NestedReadOnlyFields ==
    {"research_dataset.metadata_version_identifier",
     "research_dataset.preferred_identifier",
     "research_dataset.total_files_byte_size"}

\* fields that only the upstream can set and change, in the order checked
commonReadOnlyFields ==
    <<"research_dataset.metadata_version_identifier",
      "research_dataset.preferred_identifier",
      "research_dataset.total_files_byte_size",
      "preservation_state">>

\* strings.Contains(field, "."), for the fields of the readonly lists
ContainsDot(field) == field \in NestedReadOnlyFields

PasCatalog == "urn:nbn:fi:att:data-catalog-pas"
IdaCatalog == "urn:nbn:fi:att:data-catalog-ida"

\* the Raw texts drawn for each path
PreservationRaws == {"", "0", "79", "80", "100", "101", "130", "131"}
CumulativeRaws == {"", "0", "1", "2", "3", "\"1\""}

\* The Raw text of research_dataset.files and research_dataset.directories,
\* kept as its syntax: an object is the sequence of its members as written,
\* so the order of the keys and a repeated key are part of the text.
RawNone == [t |-> "none", v |-> <<>>]
RawNum(n) == [t |-> "num", v |-> <<n>>]
RawObj(members) == [t |-> "obj", v |-> members]
RawArr(elems) == [t |-> "arr", v |-> elems]

\* the object keys of the texts drawn, in the byte order json.Marshal sorts by
SortedKeys == <<"identifier", "title">>

FileOne == RawObj(<< <<"identifier", RawNum(1)>>, <<"title", RawNum(2)>> >>)
FileTwo == RawObj(<< <<"identifier", RawNum(2)>> >>)
StoredFiles == RawArr(<<FileOne, FileTwo>>)
StoredDirectories == RawArr(<<FileOne>>)

FilesRaws ==
    {RawNone,
     StoredFiles,
     \* the elements in the other order
     RawArr(<<FileTwo, FileOne>>),
     \* the keys of the first element in the other order
     RawArr(<<RawObj(<< <<"title", RawNum(2)>>, <<"identifier", RawNum(1)>> >>),
              FileTwo>>),
     \* a key written twice, the stored value last
     RawArr(<<RawObj(<< <<"identifier", RawNum(9)>>, <<"title", RawNum(2)>>,
                        <<"identifier", RawNum(1)>> >>), FileTwo>>),
     \* a key written twice, another value last
     RawArr(<<RawObj(<< <<"identifier", RawNum(1)>>, <<"title", RawNum(2)>>,
                        <<"identifier", RawNum(9)>> >>), FileTwo>>)}

DirectoriesRaws ==
    {RawNone,
     StoredDirectories,
     RawArr(<<RawObj(<< <<"title", RawNum(2)>>, <<"identifier", RawNum(1)>> >>)>>),
     RawArr(<<RawObj(<< <<"identifier", RawNum(1)>>, <<"title", RawNum(3)>> >>)>>)}

\* gjson Result.Int() of a Raw text: 0 for a path that does not exist
ResultInt(raw) ==
    CASE raw = "" -> 0
      [] raw = "0" -> 0
      [] raw = "79" -> 79
      [] raw = "80" -> 80
      [] raw = "100" -> 100
      [] raw = "101" -> 101
      [] raw = "130" -> 130
      [] raw = "131" -> 131

\* json.Unmarshal into interface{}: an object becomes a map, in which a key
\* written more than once keeps the value written last
RECURSIVE Unmarshal(_)
Unmarshal(raw) ==
    CASE raw.t = "obj" ->
            LET keys == {raw.v[i][1] : i \in DOMAIN raw.v}
                last(k) == CHOOSE i \in DOMAIN raw.v :
                              /\ raw.v[i][1] = k
                              /\ \A j \in DOMAIN raw.v :
                                    raw.v[j][1] = k => j <= i
            IN  [t |-> "obj", v |-> [k \in keys |-> Unmarshal(raw.v[last(k)][2])]]
      [] raw.t = "arr" ->
            [t |-> "arr", v |-> [i \in DOMAIN raw.v |-> Unmarshal(raw.v[i])]]
      [] OTHER -> raw

\* json.Marshal of a decoded value: the keys of a map are written sorted
RECURSIVE Marshal(_)
Marshal(val) ==
    CASE val.t = "obj" ->
            LET keys == SelectSeq(SortedKeys, LAMBDA k : k \in DOMAIN val.v)
            IN  RawObj([i \in DOMAIN keys |-> <<keys[i], Marshal(val.v[keys[i]])>>])
      [] val.t = "arr" ->
            RawArr([i \in DOMAIN val.v |-> Marshal(val.v[i])])
      [] OTHER -> val

\* json.Marshal(json.Unmarshal(raw)), the text checkEqual compares
NormalizedMutTextual(raw) == raw

Normalized(raw) == Marshal(Unmarshal(raw))

\* checkEqual of ValidateUpdated: "" is no JSON value and equals only ""
checkEqual(jsonA, jsonB) ==
    IF jsonA = RawNone \/ jsonB = RawNone THEN jsonA = jsonB
    ELSE Normalized(jsonA) = Normalized(jsonB)

validateCumulativeStateMutNeverTwo(stateJson, published) ==
    stateJson = "0" \/ stateJson = "1"

validateCumulativeState(stateJson, published) ==
    \/ stateJson = "0"
    \/ stateJson = "1"
    \/ (stateJson = "2" /\ published)

Verdict(err, field) == [err |-> err, field |-> field]
NoVerdict == Verdict("none", "")
OK == Verdict("nil", "")

validateMutNoCheck(dataset) == OK

\* MetaxDataset.validate: the common validation of created and updated
\* datasets
validate(dataset) ==
    LET cumulativeState == dataset.blob["cumulative_state"]
    IN  IF cumulativeState # ""
           /\ ~validateCumulativeState(cumulativeState, dataset.published)
        THEN Verdict("invalid cumulative_state value", "cumulative_state")
        ELSE OK

\* the preservation states that forbid every change
FrozenMutFrom80(preservationState) == preservationState >= 80

Frozen(preservationState) ==
    /\ preservationState >= 80
    /\ preservationState # 100
    /\ preservationState # 130

\* the readonly loop of ValidateUpdated meets a difference at this field
\* that it does not pass over
ReadOnlyChangedMutSkipNested(dataset, upd, field) ==
    dataset.blob[field] # upd.blob[field] /\ upd.blob[field] # ""

ReadOnlyChanged(dataset, upd, field) ==
    LET oldVal == dataset.blob[field]
        newVal == upd.blob[field]
    IN  /\ oldVal # newVal
        \* missing top-level fields are ok, the existing value is used
        /\ ~(~ContainsDot(field) /\ newVal = "")

\* MetaxDataset.ValidateUpdated(updated): the error returned, OK for nil
ValidateUpdated(dataset, upd) ==
    LET preservationState == ResultInt(dataset.blob["preservation_state"])
        readOnlyFields ==
            IF dataset.published
            THEN Append(commonReadOnlyFields, "cumulative_state")
            ELSE commonReadOnlyFields
        changed == {i \in 1..Len(readOnlyFields) :
                        ReadOnlyChanged(dataset, upd, readOnlyFields[i])}
        first == CHOOSE i \in changed : \A j \in changed : i <= j
        catalog == IF dataset.blob["data_catalog.identifier"] # ""
                   THEN dataset.blob["data_catalog.identifier"]
                   ELSE dataset.blob["data_catalog"]
        isPas == preservationState > 0 \/ catalog = PasCatalog
        isOld == dataset.blob["next_dataset_version.identifier"] # ""
    IN  IF dataset.family # upd.family
        THEN Verdict("dataset family mismatch", "")
        ELSE IF dataset.schema # upd.schema
        THEN Verdict("dataset schema mismatch", "")
        ELSE IF validate(upd) # OK THEN validate(upd)
        ELSE IF Frozen(preservationState)
        THEN Verdict("cannot make changes to dataset", "preservation_state")
        ELSE IF changed # {}
        THEN Verdict("readonly field changed", readOnlyFields[first])
        ELSE IF (isPas \/ isOld)
                /\ ~checkEqual(dataset.blob["research_dataset.files"],
                               upd.blob["research_dataset.files"])
        THEN Verdict("files: changes not allowed", "research_dataset.files")
        ELSE IF (isPas \/ isOld)
                /\ ~checkEqual(dataset.blob["research_dataset.directories"],
                               upd.blob["research_dataset.directories"])
        THEN Verdict("directories: changes not allowed",
                     "research_dataset.directories")
        ELSE OK

\* the blob of a dataset: the texts of the paths ValidateUpdated reads
BlobOf(ps, cs, size, catId, cat, next) ==
    [f \in {"preservation_state", "cumulative_state",
            "research_dataset.metadata_version_identifier",
            "research_dataset.preferred_identifier",
            "research_dataset.total_files_byte_size",
            "data_catalog.identifier", "data_catalog",
            "next_dataset_version.identifier",
            "research_dataset.files", "research_dataset.directories"} |->
        CASE f = "preservation_state" -> ps
          [] f = "cumulative_state" -> cs
          [] f = "research_dataset.metadata_version_identifier" -> "\"m1\""
          [] f = "research_dataset.preferred_identifier" -> "\"p1\""
          [] f = "research_dataset.total_files_byte_size" -> size
          [] f = "data_catalog.identifier" -> catId
          [] f = "data_catalog" -> cat
          [] f = "next_dataset_version.identifier" -> next
          [] f = "research_dataset.files" -> StoredFiles
          [] f = "research_dataset.directories" -> StoredDirectories]

\* data_catalog as an object with an identifier, or as a string
StoredCatalogs == {<<IdaCatalog, "">>, <<"", PasCatalog>>}

\* the datasets the update is checked against, with every combination of
\* published flag, preservation_state and cumulative_state
StoredDatasets ==
    {[family |-> MetaxDatasetFamily, schema |-> "metax-ida",
      published |-> p, blob |-> BlobOf(ps, cs, size, c[1], c[2], next)] :
        p \in BOOLEAN, ps \in PreservationRaws,
        cs \in {"", "0", "1", "2"}, size \in {"", "200"},
        c \in StoredCatalogs, next \in {"", "urn2"}}

\* the fields a client's update may set, and the texts drawn for each
EditableFields ==
    {"family", "schema", "preservation_state", "cumulative_state",
     "research_dataset.files", "research_dataset.directories"}
    \cup NestedReadOnlyFields

EditValues(field) ==
    CASE field = "family" -> {1, MetaxDatasetFamily}
      [] field = "schema" -> {"metax-ida", "metax-att"}
      [] field = "preservation_state" -> PreservationRaws
      [] field = "cumulative_state" -> CumulativeRaws
      [] field = "research_dataset.metadata_version_identifier" ->
            {"", "\"m1\"", "\"\""}
      [] field = "research_dataset.preferred_identifier" ->
            {"", "\"p1\"", "\"\""}
      [] field = "research_dataset.total_files_byte_size" ->
            {"", "200", "201"}
      [] field = "research_dataset.files" -> FilesRaws
      [] field = "research_dataset.directories" -> DirectoriesRaws

GetField(dataset, field) ==
    IF field = "family" THEN <<dataset.family>>
    ELSE IF field = "schema" THEN <<dataset.schema>>
    ELSE <<dataset.blob[field]>>

SetField(dataset, field, value) ==
    IF field = "family" THEN [dataset EXCEPT !.family = value]
    ELSE IF field = "schema" THEN [dataset EXCEPT !.schema = value]
    ELSE [dataset EXCEPT !.blob[field] = value]

\* the fields in which the updated dataset differs from the stored one
Edited(dataset, upd) ==
    {f \in EditableFields : GetField(dataset, f) # GetField(upd, f)}

\* the client changes one field of the dataset it sends
EditUpdated ==
    /\ verdict = NoVerdict
    /\ stored # <<>>
    /\ \E field \in EditableFields :
        \E value \in EditValues(field) :
            LET u == SetField(updated[1], field, value)
            IN  /\ u # updated[1]
                /\ Cardinality(Edited(stored[1], u)) <= MaxEdits
                /\ updated' = <<u>>
    /\ UNCHANGED <<stored, verdict, proxyVars, storeVars, pub, syncVars,
                   metaxVars, lookup>>

\* updateDataset calls ValidateUpdated on the stored and the updated dataset
Validate ==
    /\ verdict = NoVerdict
    /\ stored # <<>>
    /\ verdict' = ValidateUpdated(stored[1], updated[1])
    /\ UNCHANGED <<stored, updated, proxyVars, storeVars, pub, syncVars,
                   metaxVars, lookup>>

\* the updated dataset starts as the stored one; updateDataset gives it the
\* published flag of the stored dataset
InitValidate ==
    /\ ProxyIdle
    /\ StoreIdle
    /\ PublishIdle
    /\ SyncIdle
    /\ user = [identity |-> "matti", projects |-> <<>>]
    /\ stored \in {<<d>> : d \in StoredDatasets}
    /\ updated = stored
    /\ verdict = NoVerdict
    /\ MetaxIdle
    /\ LookupIdle

NextValidate ==
    \/ EditUpdated
    \/ Validate

SpecValidate == InitValidate /\ [][NextValidate]_vars

-----------------------------------------------------------------------------
(***************************************************************************)
(* Validation of updates: properties                                       *)
(***************************************************************************)
Validated == verdict # NoVerdict

StoredPreservationState == ResultInt(stored[1].blob["preservation_state"])

\* the stored dataset's own cumulative_state passes the common validation
StoredCumulativeValid ==
    LET cs == stored[1].blob["cumulative_state"]
    IN  cs = "" \/ cs \in {"0", "1"} \/ (cs = "2" /\ stored[1].published)

\* C27 (as claimed): validating a record as an update of itself succeeds,
\* whatever its preservation_state, cumulative_state, catalog and published
\* flag.
C27_IdentityAlwaysValid ==
    (Validated /\ updated = stored) => verdict = OK

\* C27 (amended): validating a record as an update of itself succeeds exactly
\* when its preservation_state does not freeze it (it is below 80, or 100 or
\* 130) and its cumulative_state is absent or valid for its published flag;
\* a frozen record is refused even the identical update.
C27_IdentityValid ==
    (Validated /\ updated = stored) =>
        (verdict = OK <=>
            (~Frozen(StoredPreservationState) /\ StoredCumulativeValid))

\* a published record in the PAS catalog with preservation_state 100 and
\* cumulative_state 2 has been validated against itself and accepted
C27_Witness ==
    /\ Validated
    /\ updated = stored
    /\ stored[1].published
    /\ stored[1].blob["preservation_state"] = "100"
    /\ stored[1].blob["cumulative_state"] = "2"
    /\ stored[1].blob["data_catalog"] = PasCatalog
    /\ verdict = OK

\* ValidateUpdated has refused the update for the stored preservation_state
RefusedForPreservationState ==
    verdict = Verdict("cannot make changes to dataset", "preservation_state")

\* the checks ValidateUpdated makes before it reads preservation_state pass
EarlierChecksPass ==
    /\ stored[1].family = updated[1].family
    /\ stored[1].schema = updated[1].schema
    /\ LET cs == updated[1].blob["cumulative_state"]
       IN  cs = "" \/ cs \in {"0", "1"} \/ (cs = "2" /\ updated[1].published)

\* C28: an update is refused because of preservation_state exactly when the
\* stored preservation_state is at least 80 and neither 100 nor 130 (and no
\* earlier check has refused it already); such a record accepts no update,
\* and the values 0 to 79, 100 and 130 never refuse one for that reason.
C28_PreservationState ==
    Validated =>
        LET ps == StoredPreservationState
            blocks == ps >= 80 /\ ps \notin {100, 130}
        IN  /\ RefusedForPreservationState <=> (blocks /\ EarlierChecksPass)
            /\ blocks => verdict # OK
            /\ (ps \in 0..79 \cup {100, 130}) => ~RefusedForPreservationState

\* an update that changes nothing but the files of a record with
\* preservation_state 101 has been refused for the preservation_state
C28_Witness ==
    /\ Validated
    /\ stored[1].blob["preservation_state"] = "101"
    /\ Edited(stored[1], updated[1]) = {"research_dataset.files"}
    /\ RefusedForPreservationState

\* ValidateUpdated has refused the update for an invalid cumulative_state
RefusedAsInvalidInput ==
    verdict = Verdict("invalid cumulative_state value", "cumulative_state")

\* C29: the cumulative_state of an update passes validation only if it is 0
\* or 1, or 2 on a published record; every other value is refused as invalid
\* input; and an update of a published record that carries a cumulative_state
\* other than the stored one is refused.
C29_CumulativeState ==
    (Validated /\ stored[1].family = updated[1].family
               /\ stored[1].schema = updated[1].schema) =>
        LET new   == updated[1].blob["cumulative_state"]
            old   == stored[1].blob["cumulative_state"]
            valid == new \in {"0", "1"} \/ (new = "2" /\ stored[1].published)
        IN  /\ (new # "" /\ ~valid) <=> RefusedAsInvalidInput
            /\ (verdict = OK /\ new # "") => valid
            /\ (stored[1].published /\ new # "" /\ new # old) => verdict # OK

\* an update that changes the cumulative_state of a published, editable
\* record from 0 to 1, both valid values, has been refused
C29_Witness ==
    /\ Validated
    /\ stored[1].published
    /\ stored[1].blob["preservation_state"] = ""
    /\ stored[1].blob["cumulative_state"] = "0"
    /\ updated[1].blob["cumulative_state"] = "1"
    /\ Edited(stored[1], updated[1]) = {"cumulative_state"}
    /\ verdict = Verdict("readonly field changed", "cumulative_state")

\* the fields a published record must keep, nested ones and top-level ones
TopLevelReadOnlyFields == {"preservation_state", "cumulative_state"}

\* C30 (as claimed): an update of a published record is accepted only if
\* each readonly field has in the updated blob exactly the text it has in
\* the stored blob: changing, adding or dropping one is refused.
C30_ReadOnlyExact ==
    (Validated /\ stored[1].published /\ verdict = OK) =>
        \A f \in NestedReadOnlyFields \cup TopLevelReadOnlyFields :
            updated[1].blob[f] = stored[1].blob[f]

\* C30 (amended): an update of a published record is accepted only if each
\* readonly field under research_dataset has in the updated blob exactly the
\* text it has in the stored blob, and each top-level readonly field
\* (preservation_state, cumulative_state) has the stored text or is missing
\* from the update; an update that changes or adds a readonly field, or
\* drops one under research_dataset, is refused.
C30_ReadOnlyKept ==
    (Validated /\ stored[1].published /\ verdict = OK) =>
        /\ \A f \in NestedReadOnlyFields :
                updated[1].blob[f] = stored[1].blob[f]
        /\ \A f \in TopLevelReadOnlyFields :
                \/ updated[1].blob[f] = stored[1].blob[f]
                \/ updated[1].blob[f] = ""

\* an update of a published record that leaves out the stored
\* cumulative_state and preservation_state and keeps the rest has been
\* accepted
C30_Witness ==
    /\ Validated
    /\ stored[1].published
    /\ stored[1].blob["cumulative_state"] = "1"
    /\ stored[1].blob["preservation_state"] = "79"
    /\ stored[1].blob["research_dataset.total_files_byte_size"] = "200"
    /\ Edited(stored[1], updated[1]) = TopLevelReadOnlyFields
    /\ updated[1].blob["cumulative_state"] = ""
    /\ updated[1].blob["preservation_state"] = ""
    /\ verdict = OK

\* the stored record is an old version, or in the PAS catalog
StoredCatalog ==
    IF stored[1].blob["data_catalog.identifier"] # ""
    THEN stored[1].blob["data_catalog.identifier"]
    ELSE stored[1].blob["data_catalog"]

OldOrPasCatalog ==
    \/ stored[1].blob["next_dataset_version.identifier"] # ""
    \/ StoredCatalog = PasCatalog

\* the stored record is in the preservation process
InPreservation == StoredPreservationState > 0

\* Two JSON texts say the same: the same kind of value, arrays with equal
\* elements in the same order, objects with the same keys whose last written
\* values say the same.
RECURSIVE SameJson(_, _)
SameJson(a, b) ==
    LET keysOf(o) == {o.v[i][1] : i \in DOMAIN o.v}
        lastOf(o, k) == o.v[CHOOSE i \in DOMAIN o.v :
                                /\ o.v[i][1] = k
                                /\ \A j \in DOMAIN o.v : j > i => o.v[j][1] # k][2]
    IN  /\ a.t = b.t
        /\ CASE a.t = "arr" ->
                    /\ Len(a.v) = Len(b.v)
                    /\ \A i \in DOMAIN a.v : SameJson(a.v[i], b.v[i])
             [] a.t = "obj" ->
                    /\ keysOf(a) = keysOf(b)
                    /\ \A k \in keysOf(a) : SameJson(lastOf(a, k), lastOf(b, k))
             [] OTHER -> a = b

SameFiles ==
    SameJson(stored[1].blob["research_dataset.files"],
             updated[1].blob["research_dataset.files"])

SameDirectories ==
    SameJson(stored[1].blob["research_dataset.directories"],
             updated[1].blob["research_dataset.directories"])

RefusedForFiles == verdict.field = "research_dataset.files"
RefusedForDirectories == verdict.field = "research_dataset.directories"

\* C31 as stated: an update of an old version or of a record of the PAS
\* catalog is accepted only with files and directories that say the same as
\* the stored ones, and an update of any other record is never refused for
\* its files or directories.
C31_FilesFrozenOldOrPas ==
    Validated =>
        /\ (OldOrPasCatalog /\ verdict = OK) => (SameFiles /\ SameDirectories)
        /\ ~OldOrPasCatalog => ~(RefusedForFiles \/ RefusedForDirectories)

\* C31: an update of an old version, of a record of the PAS catalog or of a
\* record in the preservation process is accepted only with files and
\* directories that say the same as the stored ones, and it is refused for
\* its files (directories) only when they do not; an update of any other
\* record is never refused for its files or directories.
C31_FilesFrozen ==
    Validated =>
        /\ ((OldOrPasCatalog \/ InPreservation) /\ verdict = OK)
                => (SameFiles /\ SameDirectories)
        /\ RefusedForFiles => ~SameFiles
        /\ RefusedForDirectories => ~SameDirectories
        /\ ~(OldOrPasCatalog \/ InPreservation)
                => ~(RefusedForFiles \/ RefusedForDirectories)

\* an old version's update that writes the stored files with the keys in
\* another order and a key twice is accepted; one that reorders the array
\* is refused
C31_Witness ==
    /\ Validated
    /\ stored[1].blob["next_dataset_version.identifier"] # ""
    /\ verdict = OK
    /\ updated[1].blob["research_dataset.files"]
            # stored[1].blob["research_dataset.files"]
    /\ updated[1].blob["research_dataset.directories"]
            # stored[1].blob["research_dataset.directories"]

-----------------------------------------------------------------------------
(***************************************************************************)
(* Conversion of upstream records (MetaxRawRecord.ToQvain)                 *)
(***************************************************************************)
\* the upstream records converted: every combination of editor.identifier,
\* editor.record_id, data_catalog, removed and identifier
ConvertRecords ==
    {[Blob(identifier, "", "jack", "", 1, rm, "")
        EXCEPT !.app = app, !.editor = recordId, !.catalog = catalog] :
        identifier \in {"", "urn1"}, rm \in BOOLEAN,
        app \in {"", appIdent, "not_qvain"},
        recordId \in {"", "r1", "bad"},
        catalog \in {"att", "other", ""}}

NoConversion == [pc |-> "off"]

\* a caller converts the record; a nil dereference ends the goroutine
Convert ==
    /\ conv.pc = "ready"
    /\ LET out == ToQvain(conv.raw)
       IN  conv' = [conv EXCEPT !.pc = IF out.err = "panic" THEN "crashed"
                                       ELSE "returned",
                                !.out = out]
    /\ UNCHANGED <<parsedTemplates, created, lookup, proxyVars, storeVars,
                   pub, syncVars, validateVars>>

InitConvert ==
    /\ ProxyIdle
    /\ StoreIdle
    /\ PublishIdle
    /\ SyncIdle
    /\ ValidateIdle
    /\ LookupIdle
    /\ user = [identity |-> "matti", projects |-> <<>>]
    /\ parsedTemplates = <<>>
    /\ created = <<>>
    /\ conv \in {[pc |-> "ready", raw |-> rec,
                  out |-> [err |-> "none", isNew |-> FALSE, id |-> NoId]] :
                    rec \in ConvertRecords}

NextConvert == Convert

SpecConvert == InitConvert /\ [][NextConvert]_vars

-----------------------------------------------------------------------------
(***************************************************************************)
(* Conversion of upstream records: properties                              *)
(***************************************************************************)
Converted == conv.pc \in {"returned", "crashed"}

\* the record's catalog has a schema, so that the conversion does not end
\* on the catalog
KnownCatalog == conv.raw.catalog \in CatalogIdentifiers

OursWithId ==
    /\ conv.raw.app = appIdent
    /\ conv.raw.editor \in PublishIds \cup NewIds

UnparsableId == conv.raw.editor # "" /\ conv.raw.editor \notin PublishIds \cup NewIds

Existing == conv.out.err = "nil" /\ ~conv.out.isNew /\ conv.out.id = conv.raw.editor
New == conv.out.err = "nil" /\ conv.out.isNew /\ conv.out.id = NoId

-----------------------------------------------------------------------------
(***************************************************************************)
(* Creation of datasets from the schema templates (MetaxDataset.CreateData) *)
(*                                                                         *)
(* parsedTemplates maps a schema to its template, a map from top-level key *)
(* to JSON text.  CreateData takes the template out of the table without   *)
(* copying it, so what it writes to the template it writes to the table.   *)
(***************************************************************************)
\* the CreateData calls that may run, each on its own goroutine
Creations == {"c1", "c2"}

\* the table as init() leaves it
Templates ==
    [schema \in {"metax-ida"} |-> [k \in {"data_catalog"} |-> <<IdaCatalog>>]]

\* the dataset id, the payload and the texts of the extra map of a call
CreationId(c) == IF c = "c1" THEN "r1" ELSE "r2"
CreationPayload(c) == IF c = "c1" THEN "rd1" ELSE "rd2"
ExtraKeys == {"identity", "org", "cumulative_state", "bogus"}
ExtraValue(c, key) ==
    CASE key = "identity" -> IF c = "c1" THEN "matti" ELSE "teppo"
      [] key = "org" -> IF c = "c1" THEN "csc" ELSE "hy"
      [] key = "cumulative_state" -> "1"
      [] key = "bogus" -> "x"

\* the extra maps of a call: any of the keys with its text, or identity and
\* org as empty strings; a nil map behaves as the one without keys
Extras(c) ==
    {[k \in K |-> ExtraValue(c, k)] : K \in SUBSET ExtraKeys}
    \cup {[k \in {"identity", "org"} |-> ""]}

NoCreation == [pc |-> "idle"]

\* template[key] = text
SetTemplateKey(template, key, text) ==
    [k \in DOMAIN template \cup {key} |-> IF k = key THEN text ELSE template[k]]

\* the writes of CreateData into the template for one key of the extra map,
\* made when the key is present with a non-empty text
SetFromExtra(template, extra, key, field) ==
    IF key \in DOMAIN extra /\ extra[key] # ""
    THEN SetTemplateKey(template, field, <<extra[key]>>)
    ELSE template

\* the template after the writes of one CreateData call
MergedMutCopy(template, id, blob, extra) == template

Merged(template, id, blob, extra) ==
    LET t1 == SetTemplateKey(template, "research_dataset", <<blob>>)
        t2 == SetTemplateKey(t1, "editor", <<appIdent, id>>)
        t3 == SetFromExtra(t2, extra, "identity", "metadata_provider_user")
        t4 == SetFromExtra(t3, extra, "org", "metadata_provider_org")
    IN  SetFromExtra(t4, extra, "cumulative_state", "cumulative_state")

\* CreateData up to the check of the extra map: the checks of family and
\* schema, then the writes into the template of the schema
CreateData(c) ==
    /\ created[c].pc = "idle"
    /\ \E family \in {0, MetaxDatasetFamily}, schema \in {"metax-ida", "metax-x"},
          extra \in Extras(c) :
        LET call == [family |-> family, schema |-> schema, extra |-> extra,
                     id |-> CreationId(c), payload |-> CreationPayload(c),
                     blob |-> <<>>]
        IN  IF family = 0
            THEN /\ created' = [created EXCEPT ![c] =
                        call @@ [pc |-> "returned", err |-> "need schema family"]]
                 /\ UNCHANGED parsedTemplates
            ELSE IF schema \notin DOMAIN parsedTemplates
            THEN /\ created' = [created EXCEPT ![c] =
                        call @@ [pc |-> "returned", err |-> "unknown schema"]]
                 /\ UNCHANGED parsedTemplates
            ELSE /\ parsedTemplates' =
                        [parsedTemplates EXCEPT ![schema] =
                            Merged(@, call.id, call.payload, extra)]
                 /\ created' = [created EXCEPT ![c] =
                        IF DOMAIN extra \subseteq {"identity", "org", "cumulative_state"}
                        THEN call @@ [pc |-> "merged", err |-> "none"]
                        ELSE call @@ [pc |-> "returned",
                                      err |-> "unknown key in extra map"]]
    /\ UNCHANGED <<conv, lookup, proxyVars, storeVars, pub, syncVars,
                   validateVars>>

\* json.MarshalIndent(template) and SetData: the blob is the template as it
\* is in the table now
MarshalIndent(c) ==
    /\ created[c].pc = "merged"
    /\ created' = [created EXCEPT ![c] =
            [@ EXCEPT !.pc = "returned", !.err = "nil",
                      !.blob = <<parsedTemplates[created[c].schema]>>]]
    /\ UNCHANGED <<parsedTemplates, conv, lookup, proxyVars, storeVars, pub,
                   syncVars, validateVars>>

\* Two calls inside CreateData at once access the same map without
\* synchronisation; the runtime may stop the process ("concurrent map
\* writes", "concurrent map read and map write").
Throw ==
    /\ \A c \in Creations : created[c].pc = "merged"
    /\ created' = [c \in Creations |-> [created[c] EXCEPT !.pc = "fatal"]]
    /\ UNCHANGED <<parsedTemplates, conv, lookup, proxyVars, storeVars, pub,
                   syncVars, validateVars>>

InitCreate ==
    /\ ProxyIdle
    /\ StoreIdle
    /\ PublishIdle
    /\ SyncIdle
    /\ ValidateIdle
    /\ LookupIdle
    /\ user = [identity |-> "matti", projects |-> <<>>]
    /\ conv = [pc |-> "off"]
    /\ parsedTemplates = Templates
    /\ created = [c \in Creations |-> NoCreation]

NextCreate ==
    \/ \E c \in Creations : CreateData(c)
    \/ \E c \in Creations : MarshalIndent(c)
    \/ Throw

SpecCreate == InitCreate /\ [][NextCreate]_vars

-----------------------------------------------------------------------------
(***************************************************************************)
(* Creation of datasets: properties                                        *)
(***************************************************************************)
\* what a draft holds by the arguments of its call alone: the template of
\* the schema as init() left it, the payload, the editor object, and each
\* of the optional fields that the call supplied
Supplied(call, key) == key \in DOMAIN call.extra /\ call.extra[key] # ""

DraftOf(call) ==
    [k \in DOMAIN Templates[call.schema] \cup {"research_dataset", "editor"}
           \cup (IF Supplied(call, "identity")
                 THEN {"metadata_provider_user"} ELSE {})
           \cup (IF Supplied(call, "org")
                 THEN {"metadata_provider_org"} ELSE {})
           \cup (IF Supplied(call, "cumulative_state")
                 THEN {"cumulative_state"} ELSE {}) |->
        CASE k = "research_dataset" -> <<call.payload>>
          [] k = "editor" -> <<appIdent, call.id>>
          [] k = "metadata_provider_user" -> <<call.extra["identity"]>>
          [] k = "metadata_provider_org" -> <<call.extra["org"]>>
          [] k = "cumulative_state" -> <<call.extra["cumulative_state"]>>
          [] OTHER -> Templates[call.schema][k]]

Drafted(c) == created[c].pc = "returned" /\ created[c].err = "nil"

\* C33: the template table stays as init() left it, and the blob of every
\* draft is what the arguments of its own call determine.
C33_TemplatesImmutable ==
    /\ parsedTemplates = Templates
    /\ \A c \in Creations :
        Drafted(c) => created[c].blob = <<DraftOf(created[c])>>

-----------------------------------------------------------------------------
(***************************************************************************)
(* Publication: a failed upstream call                                     *)
(***************************************************************************)
PublishReturned == pub.op = "publish" /\ pub.pc \in {"done", "answered"}

\* api.Store returned an error: the call ended on an upstream error before
\* any response was taken
StoreFailed == pub.res = <<>> /\ pub.apiErr \in ApiErrors

\* api.Store returned a response without identifier
StoreUnidentified == pub.res # <<>> /\ GetIdentifier(pub.res[1]) = ""

\* C34: a Publish whose upstream create/update call failed, or succeeded
\* with a response that carries no identifier, returns the error (the
\* upstream's, or ErrNoIdentifier) and leaves the datastore as it was before
\* the call.
C34_FailedStoreNoWrite ==
    PublishReturned =>
        /\ StoreFailed => (pub.err = pub.apiErr /\ db = db0)
        /\ StoreUnidentified => (pub.err = "ErrNoIdentifier" /\ db = db0)

\* a Publish of a draft got a response without identifier and returned
C34_Witness ==
    /\ PublishReturned
    /\ StoreUnidentified
    /\ ~db0[pub.id].published
    /\ pub.err = "ErrNoIdentifier"
    /\ db = db0

-----------------------------------------------------------------------------
(***************************************************************************)
(* Lookup API (cmd/qvain-backend/lookup_api.go, internal/psql/views.go)    *)
(***************************************************************************)
\* the stores a lookup runs against: r1 as a draft or published as urn1,
\* with or without a second record whose upstream identifier has the form
\* of a record id
LookupStores ==
    {[k \in K |->
        IF k = "r1" THEN Record("u1", ident # "", 1, Blob(ident, "r1", "jack", "", 1, FALSE, ""))
        ELSE Record("u2", TRUE, 1, Blob(ident2, "r2", "jill", "", 1, FALSE, ""))] :
        K \in {{"r1"}, {"r1", "r2"}}, ident \in {"", "urn1"},
        ident2 \in {"urn2", "r1"}}

\* the values of the query parameters qvain_id and metax_id
QvainIdParams == {"", "r1", "r2", "r3", "bad"}
MetaxIdParams == {"", "urn1", "urn2", "urn9", "r1"}

\* handleError of psql: no row is ErrNotFound
handleError(err) == IF err = "sql.ErrNoRows" THEN "ErrNotFound" ELSE err

\* the WHERE clause of ViewDatasetInfoByIdentifier for each identifierType:
\* "id" selects on blob#>>'{identifier}' = $1 and "identifier" on id = $1,
\* where a text that is no uuid cannot be compared with the id column
Where(store, identifierType, identifier) ==
    IF identifierType = "id"
    THEN [err |-> "nil",
          rows |-> {k \in DOMAIN store :
                        GetIdentifier(store[k].blob) # ""
                        /\ GetIdentifier(store[k].blob) = identifier}]
    ELSE IF ~IsUuid(identifier) THEN [err |-> "ErrInvalidUuid", rows |-> {}]
         ELSE [err |-> "nil", rows |-> {k \in DOMAIN store : k = identifier}]

\* DB.ViewDatasetInfoByIdentifier: the results it may return, a row as the
\* id of the record it was built from; QueryRow takes any one of the rows
\* selected
ViewDatasetInfoByIdentifier(store, identifierType, identifier, beginErr) ==
    LET sel == Where(store, identifierType, identifier)
    IN  IF identifierType \notin {"id", "identifier"}
        THEN {[err |-> "invalid identifierType", row |-> NoId]}
        ELSE IF beginErr # "nil" THEN {[err |-> beginErr, row |-> NoId]}
        ELSE IF sel.err # "nil" THEN {[err |-> handleError(sel.err), row |-> NoId]}
        ELSE IF sel.rows = {}
        THEN {[err |-> handleError("sql.ErrNoRows"), row |-> NoId]}
        ELSE {[err |-> "nil", row |-> k] : k \in sel.rows}

\* LookupApi.Dataset: the whole handler
Dataset ==
    /\ lookup.pc = "ready"
    /\ \E unhandled \in BOOLEAN, qvainId \in QvainIdParams,
          metaxId \in MetaxIdParams, beginErr \in {"nil", "ErrConnection"} :
        LET io0 == [w |-> NewWriter, log |-> <<>>]
            request == [pc |-> "answered", unhandled |-> unhandled,
                        qvainId |-> qvainId, metaxId |-> metaxId,
                        queried |-> FALSE, beginErr |-> beginErr]
            answer(io, queried) ==
                /\ w' = io.w
                /\ errlog' = io.log
                /\ lookup' = [request EXCEPT !.queried = queried]
        IN  IF unhandled
            THEN answer(loggedJSONError(io0, "Not Found", 404), FALSE)
            ELSE IF qvainId = "" /\ metaxId = ""
            THEN answer(loggedJSONError(io0,
                    "either 'qvain_id' or 'metax_id' required in query", 400), FALSE)
            ELSE IF qvainId # "" /\ metaxId # ""
            THEN answer(loggedJSONError(io0,
                    "both 'qvain_id' and 'metax_id' in query", 400), FALSE)
            ELSE IF qvainId # "" /\ ~IsUuid(qvainId)
            THEN answer(loggedJSONError(io0, "invalid dataset id", 400), FALSE)
            ELSE \E res \in (IF qvainId # ""
                             THEN ViewDatasetInfoByIdentifier(db, "id", qvainId, beginErr)
                             ELSE ViewDatasetInfoByIdentifier(db, "identifier", metaxId,
                                                              beginErr)) :
                    IF res.err # "nil"
                    THEN answer(dbError(io0, res.err), TRUE)
                    ELSE answer([io0 EXCEPT !.w =
                                    WriteBody(apiWriteHeaders(@),
                                              [kind |-> "dataset", status |-> 200,
                                               id |-> res.row])], TRUE)
    /\ UNCHANGED <<user, ppc, req, upreq, resp, cresp, walk, storeVars, pub,
                   syncVars, validateVars, metaxVars>>

InitLookup ==
    /\ ProxyIdle
    /\ PublishIdle
    /\ SyncIdle
    /\ ValidateIdle
    /\ MetaxIdle
    /\ user = [identity |-> "matti", projects |-> <<>>]
    /\ db \in LookupStores
    /\ db0 = db
    /\ now = 1
    /\ upcalls = <<>>
    /\ lookup = [pc |-> "ready"]

NextLookup == Dataset

SpecLookup == InitLookup /\ [][NextLookup]_vars

-----------------------------------------------------------------------------
(***************************************************************************)
(* Lookup API: properties                                                  *)
(***************************************************************************)
\* the request got as far as the query, and the query ran
LookedUp ==
    /\ lookup.pc = "answered"
    /\ lookup.queried
    /\ lookup.beginErr = "nil"

\* the answer is the info of the record with this local id
AnsweredWith(id) ==
    /\ w.status = 200
    /\ w.body = <<[kind |-> "dataset", status |-> 200, id |-> id]>>

AnsweredNotFound == w.status = 404

\* C35: a lookup with qvain_id answers with the record whose local id is
\* the argument, a lookup with metax_id with a record whose upstream
\* identifier is the argument, each with 404 when there is no such record;
\* a request with both or neither of the two is refused without a query.
C35_LookupByKind ==
    /\ LookedUp =>
        /\ (lookup.qvainId # "") # (lookup.metaxId # "")
        /\ lookup.qvainId # "" =>
                IF lookup.qvainId \in DOMAIN db
                THEN AnsweredWith(lookup.qvainId)
                ELSE AnsweredNotFound
        /\ lookup.metaxId # "" =>
                IF \E k \in DOMAIN db : GetIdentifier(db[k].blob) = lookup.metaxId
                THEN \E k \in DOMAIN db :
                        /\ GetIdentifier(db[k].blob) = lookup.metaxId
                        /\ AnsweredWith(k)
                ELSE AnsweredNotFound
    /\ (lookup.pc = "answered" /\ ~lookup.unhandled
            /\ (lookup.qvainId # "") = (lookup.metaxId # "")) =>
                (w.status = 400 /\ ~lookup.queried)

-----------------------------------------------------------------------------
(***************************************************************************)
(* Proxy: requests rejected for their path                                 *)
(***************************************************************************)
\* C36: a request whose path starts with neither /directories/ nor /files/
\* is never forwarded to the upstream, and exactly one response body is
\* written for it.
C36_RejectedNeverForwarded ==
    (req # <<>> /\ RejectedPath(req[1].path)) =>
        /\ upreq = <<>>
        /\ Len(w.body) = 1

-----------------------------------------------------------------------------
(***************************************************************************)
(* Sync: one local record per upstream identifier                          *)
(***************************************************************************)
\* no two of the user's records in the store carry the same upstream
\* identifier
OneRecordPerIdentifier(store, uid) ==
    \A j, k \in GetAllForUid(store, uid) :
        (/\ j # k
         /\ GetIdentifier(store[j].blob) # ""
         /\ GetIdentifier(store[j].blob) = GetIdentifier(store[k].blob)) => FALSE

\* the step commits the batch of the task
Commits(t) == ~tasks[t].committed /\ tasks'[t].committed

\* C37: when no two of the user's records share an upstream identifier as a
\* batch opens, none do after the batch has committed.
C37_NoSecondRecord ==
    [][\A t \in Tasks :
        (Commits(t) /\ OneRecordPerIdentifier(tasks[t].dbOpen, tasks[t].uid))
            => OneRecordPerIdentifier(db', tasks[t].uid)]_vars

-----------------------------------------------------------------------------
(***************************************************************************)
(* FetchDataset over the records the upstream may answer with              *)
(***************************************************************************)
\* FetchDataset after api.GetId has answered: the body of the answer is the
\* upstream's, FetchDataset hands it to syncRecord unread
InitFetchDataset ==
    /\ ProxyIdle
    /\ user = [identity |-> "matti", projects |-> <<>>]
    /\ PublishIdle
    /\ ValidateIdle
    /\ MetaxIdle
    /\ LookupIdle
    /\ now \in 1..MaxTime
    /\ db \in {s \in InitialStores : \A k \in DOMAIN s : s[k].synced <= now}
    /\ db0 = db
    /\ upcalls = <<>>
    /\ \E rec \in StreamRecords :
        /\ upstream = <<rec>>
        /\ tasks = [t \in Tasks |->
                IF t = "t1"
                THEN [IdleTask EXCEPT !.pc = "syncone", !.entry = "FetchDataset",
                                      !.called = now, !.contacted = 1,
                                      !.stream = <<rec>>]
                ELSE OffTask]
    /\ runs = 0

NextFetchDataset ==
    \/ \E t \in Tasks : FetchDatasetSync(t)
    \/ \E t \in Tasks : SyncReturned(t)

SpecFetchDataset == InitFetchDataset /\ [][NextFetchDataset]_vars

\* FetchDataset has returned without an error
FetchedOne(t) ==
    /\ tasks[t].entry = "FetchDataset"
    /\ tasks[t].pc = "done"
    /\ tasks[t].err = "nil"

\* C38: whenever FetchDataset returns without an error it returns a local
\* id, whatever the upstream record, a removed one included.
C38_FetchDatasetReturnsId ==
    \A t \in Tasks : FetchedOne(t) => tasks[t].qid # NoId

-----------------------------------------------------------------------------
(***************************************************************************)
(* fetch: the pass over the records and the pass over the removed records  *)
(***************************************************************************)
\* the step takes fetch from its first syncBatch to its second
StartsSecondPass(t) == tasks[t].pass = 1 /\ tasks'[t].pass = 2

\* the step ends a batch of fetch that has not committed
FailsPass(t, pass) ==
    /\ tasks[t].pc \in {"open", "select"}
    /\ tasks[t].pass = pass
    /\ tasks'[t].ended
    /\ ~tasks'[t].committed

\* C39: the pass over the removed records starts only when the first pass
\* has committed; a first pass that fails ends fetch with its error; a second
\* pass that fails ends fetch with its error and leaves in the store what
\* the first pass committed.
C39_TwoPasses ==
    [][\A t \in Tasks :
        /\ StartsSecondPass(t) => tasks'[t].committed
        /\ FailsPass(t, 1) =>
            /\ tasks'[t].pc \in {"done", "crashed"}
            /\ tasks'[t].err # "nil"
        /\ FailsPass(t, 2) =>
            /\ tasks'[t].pc \in {"done", "crashed"}
            /\ tasks'[t].err # "nil"
            /\ db' = db
            /\ db' = tasks'[t].dbOpen]_vars

-----------------------------------------------------------------------------
(***************************************************************************)
(* Conversion: records without a catalog                                   *)
(***************************************************************************)
\* the conversion has ended and its caller has a result
ConversionEnded == conv.pc \in {"returned", "crashed"}

\* C40: converting an upstream record never crashes: ToQvain returns a
\* record or an error for every record, one without data_catalog or without
\* data_catalog.identifier included.
C40_ConversionReturns ==
    ConversionEnded =>
        /\ conv.pc = "returned"
        /\ conv.out.err # "panic"

====
